---- MODULE Spec2Model ----
(***************************************************************************)
(* A model of petl's group/reduce/aggregate/merge views                    *)
(* (petl/transform/reductions.py) and of its selection views               *)
(* (petl/transform/selects.py).                                            *)
(*                                                                         *)
(* A table is a header and a sequence of data rows.  A view is an object   *)
(* holding a reference to its source and its parameters; iterating a view  *)
(* runs a generator, one action of the model per resumption of the         *)
(* generator.  Rows, keys and values are small integers; None is the       *)
(* integer 0, which no field value drawn for a key or a number equals.     *)
(***************************************************************************)
EXTENDS Integers, Sequences, FiniteSets, TLC

VARIABLES
    table,   \* the source table: [flds |-> header, rows |-> data rows]
    views,   \* the view objects, by name: their fields as set by __init__
    gens,    \* the running generators, by view name: position and locals
    out,     \* what each generator has yielded so far, by view name
    calls,   \* the calls made to caller-supplied functions, in order
    reads    \* how many times the rows of the source table have been iterated

vars == <<table, views, gens, out, calls, reads>>

(***************************************************************************)
(* Bounds of the model.                                                    *)
(***************************************************************************)
MaxRows == 3

None == 0

(***************************************************************************)
(* Sequences.                                                              *)
(***************************************************************************)
Range(s) == {s[i] : i \in 1..Len(s)}

SeqsUpTo(S, n) == UNION {[1..m -> S] : m \in 0..n}

IndexOf(s, x) == CHOOSE i \in 1..Len(s) : s[i] = x /\ \A j \in 1..(i-1) : s[j] # x

RECURSIVE SumSeq(_)
SumSeq(s) == IF s = <<>> THEN 0 ELSE s[1] + SumSeq(Tail(s))

RECURSIVE LexLess(_, _)
LexLess(a, b) ==
    IF a = <<>> THEN b # <<>>
    ELSE IF b = <<>> THEN FALSE
    ELSE IF a[1] # b[1] THEN a[1] < b[1]
    ELSE LexLess(Tail(a), Tail(b))

(***************************************************************************)
(* Keys.  A key is a field name, a sequence of field names or a callable:  *)
(* [kind |-> "field" | "fields" | "callable", f |-> the field names].      *)
(***************************************************************************)
FieldKey(f) == [kind |-> "field", f |-> <<f>>]
FieldsKey(fs) == [kind |-> "fields", f |-> fs]
CallableKey == [kind |-> "callable", f |-> <<>>]

\* the callable key of the model: lambda row: (row[0] + row[1]) % 2
keyfunc(row) == (row[1] + row[2]) % 2

\* operator.itemgetter(*idxs)(row): the item itself for one index, a tuple
\* of the items for several
itemgetter(idxs, row) ==
    IF Len(idxs) = 1 THEN row[idxs[1]]
    ELSE [i \in 1..Len(idxs) |-> row[idxs[i]]]

asindices(flds, fs) == [i \in 1..Len(fs) |-> IndexOf(flds, fs[i])]

\* the key of a row, as rowgroupby yields it: a value, or a tuple for a
\* compound key
getkey(flds, key, row) ==
    IF key.kind = "callable" THEN keyfunc(row)
    ELSE IF key.kind = "field" THEN row[IndexOf(flds, key.f[1])]
    ELSE [i \in 1..Len(key.f) |-> row[IndexOf(flds, key.f[i])]]

\* the same key as a tuple, for ordering
sortkey(flds, key, row) ==
    IF key.kind = "fields" THEN getkey(flds, key, row)
    ELSE <<getkey(flds, key, row)>>

(***************************************************************************)
(* sort(table, key, reverse): the rows ordered by key, rows of equal key   *)
(* in their input order.                                                   *)
(***************************************************************************)
sortpos(flds, rows, key, reverse, i) ==
    LET k(j) == sortkey(flds, key, rows[j])
        before(j) == IF reverse THEN LexLess(k(i), k(j)) ELSE LexLess(k(j), k(i))
    IN  Cardinality({j \in 1..Len(rows) : before(j)})
        + Cardinality({j \in 1..(i-1) : k(j) = k(i)}) + 1

sort(flds, rows, key, reverse) ==
    [p \in 1..Len(rows) |->
        rows[CHOOSE i \in 1..Len(rows) : sortpos(flds, rows, key, reverse, i) = p]]

(***************************************************************************)
(* A source is the table itself or a sort of a source; it is evaluated     *)
(* against the table when a generator starts.                              *)
(***************************************************************************)
TableSrc == [op |-> "table"]
SortSrc(src, key, reverse) == [op |-> "sort", src |-> src, key |-> key, reverse |-> reverse]
\* the source is itself a selection (a RowSelectView or FieldSelectView)
ViewSrc(view) == [op |-> "view", view |-> view]

\* selected(view, t): what one whole iteration of a selection yields and
\* whether it ends by raising (defined with the selections below)
RECURSIVE iterrows(_, _), selected(_, _)
iterrows(src, t) ==
    IF src.op = "table" THEN t.rows
    ELSE IF src.op = "sort" THEN sort(t.flds, iterrows(src.src, t), src.key, src.reverse)
    ELSE Tail(selected(src.view, t).out)

\* iterating the source ends with an exception, after the rows it yields
srcraises(src, t) == src.op = "view" /\ selected(src.view, t).raised

(***************************************************************************)
(* rowgroupby(it, key): the next group of the stream is the maximal run of *)
(* leading rows whose key equals the key of the first.                     *)
(***************************************************************************)
runlen(flds, key, rows) ==
    LET k == getkey(flds, key, rows[1])
    IN  CHOOSE m \in 1..Len(rows) :
            /\ \A i \in 1..m : getkey(flds, key, rows[i]) = k
            /\ (m < Len(rows) => getkey(flds, key, rows[m+1]) # k)

nextgroup(flds, key, rows) == SubSeq(rows, 1, runlen(flds, key, rows))
aftergroup(flds, key, rows) == SubSeq(rows, runlen(flds, key, rows) + 1, Len(rows))

(***************************************************************************)
(* Tables over the header (foo, bar) for the grouping views.               *)
(***************************************************************************)
FooBar == <<"foo", "bar">>
FooBarRows == {<<a, b>> : a \in {1, 2}, b \in {1, 2, 3}}
FooBarTables == {[flds |-> FooBar, rows |-> r] : r \in SeqsUpTo(FooBarRows, MaxRows)}
GroupKeys == {FieldKey("foo"), FieldsKey(<<"foo", "bar">>), CallableKey}

\* the keys present in a table, and the rows of a table that carry a key
keysof(t, key) == {getkey(t.flds, key, t.rows[i]) : i \in 1..Len(t.rows)}
rowsof(t, key, k) == SelectSeq(t.rows, LAMBDA r : getkey(t.flds, key, r) = k)
count(s, x) == Cardinality({i \in 1..Len(s) : s[i] = x})
samerows(s, t) == Len(s) = Len(t) /\ \A i \in 1..Len(s) : count(s, s[i]) = count(t, s[i])
ascending(flds, key, ks) ==
    \A i \in 1..(Len(ks) - 1) : LexLess(
        IF key.kind = "fields" THEN ks[i] ELSE <<ks[i]>>,
        IF key.kind = "fields" THEN ks[i+1] ELSE <<ks[i+1]>>)

(***************************************************************************)
(* rowreduce and RowReduceView.                                            *)
(***************************************************************************)
NoFields == <<>>

RowReduceView_nosort(source, key, reducer, fields, presorted) ==
    [cls |-> "RowReduceView", source |-> source,
     key |-> key, fields |-> fields, reducer |-> reducer]

RowReduceView(source, key, reducer, fields, presorted) ==
    [cls |-> "RowReduceView",
     source |-> IF presorted THEN source ELSE SortSrc(source, key, FALSE),
     key |-> key, fields |-> fields, reducer |-> reducer]

rowreduce(source, key, reducer, fields, presorted) ==
    RowReduceView(source, key, reducer, fields, presorted)

\* the reducers of the model: the docstring's
\*     lambda key, rows: [key, sum(row[1] for row in rows)]
\* and groupselectfirst's lambda k, rows: next(rows)
reducer_sum(k, rows) == <<k, SumSeq([i \in 1..Len(rows) |-> rows[i][2]])>>
reducer_first(k, rows) == rows[1]
applyreducer(reducer, k, rows) ==
    IF reducer \in {"sum", "sumfail"} THEN reducer_sum(k, rows) ELSE reducer_first(k, rows)

\* a reducer that raises: "sumfail" is the summing reducer made to raise
\* ValueError for a group that holds a row whose bar is 2
reducerraises(reducer, k, rows) ==
    reducer = "sumfail" /\ \E i \in 1..Len(rows) : rows[i][2] = 2

groupselectfirst(source, key) == rowreduce(source, key, "first", NoFields, FALSE)

groupselectmin_norev(source, key, value) ==
    groupselectfirst(SortSrc(source, FieldKey(value), TRUE), key)

groupselectmin(source, key, value) ==
    groupselectfirst(SortSrc(source, FieldKey(value), FALSE), key)

groupselectmax(source, key, value) ==
    groupselectfirst(SortSrc(source, FieldKey(value), TRUE), key)

(***************************************************************************)
(* iterrowreduce, one action per resumption of the generator.  A frame     *)
(* holds pc ("start", "groups", "done"), whether the source has been       *)
(* opened, and the rows of the source not yet read.                        *)
(***************************************************************************)
NewGen == [pc |-> "start", opened |-> FALSE, it |-> <<>>]

\* a step of a generator that opens its source iterates the source table
countreads(v) ==
    reads' = IF ~gens[v].opened /\ gens'[v].opened THEN reads + 1 ELSE reads

throw_swallowed(v, exc) ==
    gens' = [gens EXCEPT ![v] = [pc |-> "done", opened |-> TRUE, it |-> <<>>]]

\* an exception raised by a call the generator makes is not caught in the
\* generator: it leaves the generator, which is finished, and reaches the
\* caller of next() as it was raised
throw(v, exc) ==
    gens' = [gens EXCEPT ![v] = [pc |-> "raised", opened |-> TRUE, it |-> <<>>,
                                 exc |-> exc]]

\* the rows the generator reads next: the source is opened on first use
pending(v) ==
    IF gens[v].opened THEN gens[v].it ELSE iterrows(views[v].source, table)

\* first resumption: the header, peeked from the source unless given
RowReduceStart(v) ==
    /\ views[v].cls = "RowReduceView"
    /\ gens[v].pc = "start"
    /\ IF views[v].fields = NoFields
       THEN /\ gens' = [gens EXCEPT ![v] = [pc |-> "groups", opened |-> TRUE,
                                            it |-> pending(v)]]
            /\ out' = [out EXCEPT ![v] = <<table.flds>>]
       ELSE /\ gens' = [gens EXCEPT ![v].pc = "groups"]
            /\ out' = [out EXCEPT ![v] = <<views[v].fields>>]
    /\ UNCHANGED <<table, views, calls>>
    /\ countreads(v)

\* a later resumption with rows left: reduce the next group, yield the row
RowReduceGroup(v) ==
    /\ views[v].cls = "RowReduceView"
    /\ gens[v].pc = "groups"
    /\ pending(v) # <<>>
    /\ LET key == views[v].key
           grp == nextgroup(table.flds, key, pending(v))
           k   == getkey(table.flds, key, grp[1])
       IN  /\ ~reducerraises(views[v].reducer, k, grp)
           /\ calls' = Append(calls, [fn |-> "reducer", view |-> v, key |-> k, rows |-> grp])
           /\ out' = [out EXCEPT ![v] = Append(@, applyreducer(views[v].reducer, k, grp))]
           /\ gens' = [gens EXCEPT ![v] = [pc |-> "groups", opened |-> TRUE,
                                           it |-> aftergroup(table.flds, key, pending(v))]]
    /\ UNCHANGED <<table, views>>
    /\ countreads(v)

\* a later resumption with rows left, the reducer raising for the next
\* group: no row is yielded
RowReduceCallRaise(v) ==
    /\ views[v].cls = "RowReduceView"
    /\ gens[v].pc = "groups"
    /\ pending(v) # <<>>
    /\ LET key == views[v].key
           grp == nextgroup(table.flds, key, pending(v))
           k   == getkey(table.flds, key, grp[1])
           c   == [fn |-> "reducer", view |-> v, key |-> k, rows |-> grp]
       IN  /\ reducerraises(views[v].reducer, k, grp)
           /\ calls' = Append(calls, c)
           /\ throw(v, [by |-> "reducer", call |-> c])
    /\ UNCHANGED <<table, views, out>>
    /\ countreads(v)

\* a later resumption with no row left: the generator ends
RowReduceEnd(v) ==
    /\ views[v].cls = "RowReduceView"
    /\ gens[v].pc = "groups"
    /\ pending(v) = <<>>
    /\ gens' = [gens EXCEPT ![v] = [pc |-> "done", opened |-> TRUE, it |-> <<>>]]
    /\ UNCHANGED <<table, views, out, calls>>
    /\ countreads(v)

ReduceViews ==
    {rowreduce(TableSrc, key, "sum", f, p) :
        key \in GroupKeys, f \in {NoFields, <<"foo", "barsum">>}, p \in BOOLEAN}
    \cup {groupselectfirst(TableSrc, key) : key \in GroupKeys}
    \cup {groupselectmin(TableSrc, key, "bar") : key \in GroupKeys}
    \cup {groupselectmax(TableSrc, key, "bar") : key \in GroupKeys}

InitReduce ==
    /\ table \in FooBarTables
    /\ views \in {"t2" :> w : w \in ReduceViews}
    /\ gens = ("t2" :> NewGen)
    /\ out = ("t2" :> <<>>)
    /\ calls = <<>>
    /\ reads = 0

NextReduce ==
    \/ RowReduceStart("t2")
    \/ RowReduceGroup("t2")
    \/ RowReduceEnd("t2")

SpecReduce == InitReduce /\ [][NextReduce]_vars

(***************************************************************************)
(* aggregate with a callable aggregation: SimpleAggregateView.             *)
(***************************************************************************)
NoValue == <<>>

SimpleAggregateView(source, key, aggregation, value, presorted) ==
    [cls |-> "SimpleAggregateView",
     table |-> IF presorted THEN source ELSE SortSrc(source, key, FALSE),
     key |-> key, aggregation |-> aggregation, value |-> value]

\* rowgroupby(table, key, value): the members of a group are the rows, or
\* the row's value field when a value is given
groupvalues(flds, value, grp) ==
    IF value = NoValue THEN grp
    ELSE [i \in 1..Len(grp) |-> grp[i][IndexOf(flds, value[1])]]

RECURSIVE countiter_offbyone(_)
countiter_offbyone(g) == IF Len(g) <= 1 THEN 0 ELSE 1 + countiter_offbyone(Tail(g))

\* lambda g: sum(1 for _ in g): one is added for each member drawn from g
RECURSIVE countiter(_)
countiter(g) == IF g = <<>> THEN 0 ELSE 1 + countiter(Tail(g))

\* the aggregation functions of the model: len (rewritten to the counting
\* lambda by itersimpleaggregate), sum and list
applyagg(aggregation, g) ==
    IF aggregation \in {"len", "lenfail"} THEN Len(g)
    ELSE IF aggregation = "sum" THEN SumSeq(g)
    ELSE g

\* an aggregator that raises: "lenfail" counts the members it is given
\* and raises ValueError when there is more than one
aggraises(aggregation, g) == aggregation = "lenfail" /\ Len(g) > 1

simpleagg(aggregation, g) ==
    IF aggregation = "len" THEN countiter(g) ELSE applyagg(aggregation, g)

simpleaggheader(key) ==
    IF key.kind = "fields" THEN key.f \o <<"value">>
    ELSE IF key.kind = "callable" THEN <<"key", "value">>
    ELSE <<key.f[1], "value">>

simpleaggrow(flds, key, aggregation, value, grp) ==
    LET k == getkey(flds, key, grp[1])
        a == simpleagg(aggregation, groupvalues(flds, value, grp))
    IN  IF key.kind = "fields" THEN k \o <<a>> ELSE <<k, a>>

\* first resumption: the header; the source is not opened yet
SimpleAggStart(v) ==
    /\ views[v].cls = "SimpleAggregateView"
    /\ gens[v].pc = "start"
    /\ gens' = [gens EXCEPT ![v].pc = "groups"]
    /\ out' = [out EXCEPT ![v] = <<simpleaggheader(views[v].key)>>]
    /\ UNCHANGED <<table, views, calls>>
    /\ countreads(v)

\* the rows a SimpleAggregateView or FoldView generator reads next
pendingtable(v) ==
    IF gens[v].opened THEN gens[v].it ELSE iterrows(views[v].table, table)

SimpleAggGroup(v) ==
    /\ views[v].cls = "SimpleAggregateView"
    /\ gens[v].pc = "groups"
    /\ pendingtable(v) # <<>>
    /\ LET key == views[v].key
           grp == nextgroup(table.flds, key, pendingtable(v))
       IN  /\ ~aggraises(views[v].aggregation, groupvalues(table.flds, views[v].value, grp))
           /\ out' = [out EXCEPT ![v] = Append(@,
                        simpleaggrow(table.flds, key, views[v].aggregation,
                                     views[v].value, grp))]
           /\ gens' = [gens EXCEPT ![v] = [pc |-> "groups", opened |-> TRUE,
                                           it |-> aftergroup(table.flds, key, pendingtable(v))]]
    /\ UNCHANGED <<table, views, calls>>
    /\ countreads(v)

\* the aggregation function raises for the next group
SimpleAggCallRaise(v) ==
    /\ views[v].cls = "SimpleAggregateView"
    /\ gens[v].pc = "groups"
    /\ pendingtable(v) # <<>>
    /\ LET grp == nextgroup(table.flds, views[v].key, pendingtable(v))
           c == [fn |-> "aggregation", view |-> v,
                 args |-> groupvalues(table.flds, views[v].value, grp)]
       IN  /\ aggraises(views[v].aggregation, c.args)
           /\ calls' = Append(calls, c)
           /\ throw(v, [by |-> "aggregation", call |-> c])
    /\ UNCHANGED <<table, views, out>>
    /\ countreads(v)

SimpleAggEnd(v) ==
    /\ views[v].cls = "SimpleAggregateView"
    /\ gens[v].pc = "groups"
    /\ pendingtable(v) = <<>>
    /\ gens' = [gens EXCEPT ![v] = [pc |-> "done", opened |-> TRUE, it |-> <<>>]]
    /\ UNCHANGED <<table, views, out, calls>>
    /\ countreads(v)

SimpleAggregations == {<<"len", NoValue>>, <<"len", <<"bar">>>>, <<"sum", <<"bar">>>>}

SimpleAggViews ==
    {SimpleAggregateView(TableSrc, key, a[1], a[2], p) :
        key \in GroupKeys, a \in SimpleAggregations, p \in BOOLEAN}

InitSimpleAgg ==
    /\ table \in FooBarTables
    /\ views \in {"t2" :> w : w \in SimpleAggViews}
    /\ gens = ("t2" :> NewGen)
    /\ out = ("t2" :> <<>>)
    /\ calls = <<>>
    /\ reads = 0

NextSimpleAgg ==
    \/ SimpleAggStart("t2")
    \/ SimpleAggGroup("t2")
    \/ SimpleAggEnd("t2")

SpecSimpleAgg == InitSimpleAgg /\ [][NextSimpleAgg]_vars

(***************************************************************************)
(* aggregate with several output columns: MultiAggregateView.              *)
(*                                                                         *)
(* The values an aggregation rule is made of: a function, a string, None   *)
(* or a tuple of such values.  A Python value is a record of its type t    *)
(* and, as the type has them, its name s, its number n and its items.      *)
(***************************************************************************)
Fn(f) == [t |-> "fn", s |-> f, n |-> 0, items |-> <<>>]
Str(x) == [t |-> "str", s |-> x, n |-> 0, items |-> <<>>]
PyNone == [t |-> "none", s |-> "", n |-> 0, items |-> <<>>]
Tup(items) == [t |-> "tuple", s |-> "", n |-> 0, items |-> items]
PyBool(b) == [t |-> "bool", s |-> "", n |-> IF b THEN 1 ELSE 0, items |-> <<>>]
PyInt(n) == [t |-> "int", s |-> "", n |-> n, items |-> <<>>]
callable(x) == x.t = "fn"
isstring(x) == x.t = "str"
istuple(x) == x.t = "tuple"

\* OrderedDict: a sequence of [name, rule]; d[name] = rule replaces the rule
\* of a name already there, in place, and appends a new name
odset(d, name, rule) ==
    IF \E i \in 1..Len(d) : d[i].name = name
    THEN [i \in 1..Len(d) |-> IF d[i].name = name THEN [name |-> name, rule |-> rule] ELSE d[i]]
    ELSE Append(d, [name |-> name, rule |-> rule])

\* the aggregation argument: None, a list of tuples or a dict
NoAggregation == [form |-> "none", items |-> <<>>]
ListAggregation(ts) == [form |-> "list", items |-> ts]
DictAggregation(d) == [form |-> "dict", items |-> d]

RECURSIVE fromlist_second(_, _)
fromlist_second(d, ts) ==
    IF ts = <<>> THEN d
    ELSE fromlist_second(odset(d, ts[1].items[1].s, ts[1].items[2]), Tail(ts))

\* for t in aggregation: self.aggregation[t[0]] = t[1:]
RECURSIVE fromlist(_, _)
fromlist(d, ts) ==
    IF ts = <<>> THEN d
    ELSE fromlist(odset(d, ts[1].items[1].s, Tup(Tail(ts[1].items))), Tail(ts))

MultiAggregateView(source, key, aggregation, presorted) ==
    [cls |-> "MultiAggregateView",
     source |-> IF presorted THEN source ELSE SortSrc(source, key, FALSE),
     key |-> key,
     aggregation |-> IF aggregation.form = "none" THEN <<>>
                     ELSE IF aggregation.form = "list" THEN fromlist(<<>>, aggregation.items)
                     ELSE aggregation.items]

\* the source of a normalised rule: None, a field or a tuple of fields
srcof(x) ==
    IF x.t = "none" THEN [kind |-> "none", f |-> <<>>]
    ELSE IF istuple(x) THEN [kind |-> "fields", f |-> [i \in 1..Len(x.items) |-> x.items[i].s]]
    ELSE [kind |-> "field", f |-> <<x.s>>]

\* normalise aggregators: the (srcfld, aggfun) of a rule, or not ok
\* a value len() cannot be taken of: None, a number
unsized(x) == x.t \in {"none", "int", "bool"}

normalise(agg) ==
    IF callable(agg) THEN [ok |-> TRUE, src |-> srcof(PyNone), fun |-> agg.s, err |-> ""]
    ELSE IF isstring(agg) THEN [ok |-> TRUE, src |-> srcof(agg), fun |-> "list", err |-> ""]
    ELSE IF unsized(agg)
        \* len(agg) raises TypeError: object of type ... has no len()
        THEN [ok |-> FALSE, src |-> srcof(PyNone), fun |-> "list", err |-> "TypeError"]
    ELSE IF Len(agg.items) = 1 /\ isstring(agg.items[1])
        THEN [ok |-> TRUE, src |-> srcof(agg.items[1]), fun |-> "list", err |-> ""]
    ELSE IF Len(agg.items) = 1 /\ callable(agg.items[1])
        THEN [ok |-> TRUE, src |-> srcof(PyNone), fun |-> agg.items[1].s, err |-> ""]
    ELSE IF Len(agg.items) = 2
        THEN [ok |-> TRUE, src |-> srcof(agg.items[1]), fun |-> agg.items[2].s, err |-> ""]
    ELSE [ok |-> FALSE, src |-> srcof(PyNone), fun |-> "list", err |-> "invalid aggregation"]

normalised(d) == [i \in 1..Len(d) |-> [name |-> d[i].name, agg |-> normalise(d[i].rule)]]
invalid(d) == \E i \in 1..Len(d) : ~normalise(d[i].rule).ok

multiaggheader(key, aggregation) ==
    (IF key.kind = "callable" THEN <<"key">> ELSE key.f)
    \o [i \in 1..Len(aggregation) |-> aggregation[i].name]

\* what one aggregator is called with for a group: whole rows, the values
\* of a field, or what itemgetter gives for the fields of a tuple
itemshape(idxs) == IF Len(idxs) = 1 THEN "values" ELSE "tuples"

aggcall(srcflds, a, rows) ==
    IF a.src.kind = "none" THEN [fn |-> a.fun, shape |-> "rows", args |-> rows]
    ELSE IF a.src.kind = "fields"
        THEN LET idxs == asindices(srcflds, a.src.f)
             IN  [fn |-> a.fun, shape |-> itemshape(idxs),
                  args |-> [i \in 1..Len(rows) |-> itemgetter(idxs, rows[i])]]
    ELSE LET idx == IndexOf(srcflds, a.src.f[1])
         IN  [fn |-> a.fun, shape |-> "values",
              args |-> [i \in 1..Len(rows) |-> rows[i][idx]]]

aggcalls(srcflds, aggregation, rows) ==
    [j \in 1..Len(aggregation) |-> aggcall(srcflds, aggregation[j].agg, rows)]

multiaggrow(srcflds, key, aggregation, rows) ==
    LET k == getkey(srcflds, key, rows[1])
        cs == aggcalls(srcflds, aggregation, rows)
    IN  (IF key.kind = "fields" THEN k ELSE <<k>>)
        \o [j \in 1..Len(cs) |-> applyagg(cs[j].fn, cs[j].args)]

CallableAggregation(f) == [form |-> "callable", items |-> <<f>>]

\* aggregate: a callable aggregation gives the simple view; None, a list
\* or a dict gives the multi-column view, which ignores value
aggregate(source, key, aggregation, value, presorted) ==
    IF aggregation.form = "callable"
    THEN SimpleAggregateView(source, key, aggregation.items[1], value, presorted)
    ELSE MultiAggregateView(source, key, aggregation, presorted)

(***************************************************************************)
(* MultiAggregateView.__setitem__ and itermultiaggregate.                  *)
(***************************************************************************)
MaxAssign == 2
MaxAggRows == 2

setitems == SelectSeq(calls, LAMBDA c : c.fn = "setitem")

\* view[name] = rule, before the view is iterated
MultiAggSetItem(v, name, rule) ==
    /\ views[v].cls = "MultiAggregateView"
    /\ gens[v].pc = "start"
    /\ Len(setitems) < MaxAssign
    /\ views' = [views EXCEPT ![v].aggregation = odset(@, name, rule)]
    /\ calls' = Append(calls, [fn |-> "setitem", view |-> v, name |-> name, rule |-> rule])
    /\ UNCHANGED <<table, gens, out>>
    /\ countreads(v)

\* the rule as normalisation rewrites it: the tuple (srcfld, aggfun)
rewritten(rule) ==
    IF callable(rule) THEN Tup(<<PyNone, rule>>)
    ELSE IF isstring(rule) THEN Tup(<<rule, Fn("list")>>)
    ELSE IF Len(rule.items) = 1 /\ isstring(rule.items[1])
        THEN Tup(<<rule.items[1], Fn("list")>>)
    ELSE IF Len(rule.items) = 1 /\ callable(rule.items[1])
        THEN Tup(<<PyNone, rule.items[1]>>)
    ELSE rule

storedafter_rewritten(d) == [i \in 1..Len(d) |-> [d[i] EXCEPT !.rule = rewritten(@)]]

\* aggregation = OrderedDict(aggregation.items())  # take a copy
\* the rewriting is done in the generator's copy: the mapping the view
\* holds (the caller's own dict, when a dict was given) stays as it is
storedafter(d) == d

\* view[name] = rule while an iteration of the view is under way
MultiAggSetItemRunning(v, name, rule) ==
    /\ views[v].cls = "MultiAggregateView"
    /\ gens[v].pc = "groups"
    /\ Len(setitems) < MaxAssign
    /\ views' = [views EXCEPT ![v].aggregation = odset(@, name, rule)]
    /\ calls' = Append(calls, [fn |-> "setitem", view |-> v, name |-> name, rule |-> rule])
    /\ UNCHANGED <<table, gens, out>>
    /\ countreads(v)

\* first resumption, every rule well formed: the copy of the mapping is
\* normalised, the source is opened, the header is yielded
MultiAggStart(v) ==
    /\ views[v].cls = "MultiAggregateView"
    /\ gens[v].pc = "start"
    /\ ~invalid(views[v].aggregation)
    /\ views' = [views EXCEPT ![v].aggregation = storedafter(@)]
    /\ gens' = [gens EXCEPT ![v] =
                    [pc |-> "groups", opened |-> TRUE,
                     it |-> iterrows(views[v].source, table),
                     srcflds |-> table.flds,
                     aggregation |-> normalised(views[v].aggregation)]]
    /\ out' = [out EXCEPT ![v] =
                    <<multiaggheader(views[v].key, normalised(views[v].aggregation))>>]
    /\ UNCHANGED <<table, calls>>
    /\ countreads(v)

\* first resumption, some rule not normalised: the source has been opened,
\* the exception is raised at the first such rule, in the order of the
\* mapping; 'invalid aggregation' names the output field and the rule;
\* nothing is yielded
MultiAggRaise(v) ==
    /\ views[v].cls = "MultiAggregateView"
    /\ gens[v].pc = "start"
    /\ invalid(views[v].aggregation)
    /\ LET d == views[v].aggregation
           i == CHOOSE n \in 1..Len(d) :
                    /\ ~normalise(d[n].rule).ok
                    /\ \A m \in 1..(n-1) : normalise(d[m].rule).ok
       IN  gens' = [gens EXCEPT ![v] =
                    [pc |-> "raised", opened |-> TRUE,
                     it |-> iterrows(views[v].source, table),
                     exc |-> [type |-> normalise(d[i].rule).err,
                              outfld |-> d[i].name, agg |-> d[i].rule]]]
    /\ UNCHANGED <<table, views, out, calls>>
    /\ countreads(v)

\* a later resumption with rows left: the next group is materialized, each
\* aggregator is called in the order of the columns, the row is yielded
MultiAggGroup(v) ==
    /\ views[v].cls = "MultiAggregateView"
    /\ gens[v].pc = "groups"
    /\ gens[v].it # <<>>
    /\ LET key == views[v].key
           g == gens[v]
           rows == nextgroup(g.srcflds, key, g.it)
       IN  /\ \A j \in 1..Len(g.aggregation) :
                LET c == aggcall(g.srcflds, g.aggregation[j].agg, rows)
                IN  ~aggraises(c.fn, c.args)
           /\ calls' = calls \o aggcalls(g.srcflds, g.aggregation, rows)
           /\ out' = [out EXCEPT ![v] =
                        Append(@, multiaggrow(g.srcflds, key, g.aggregation, rows))]
           /\ gens' = [gens EXCEPT ![v].it = aftergroup(g.srcflds, key, g.it)]
    /\ UNCHANGED <<table, views>>
    /\ countreads(v)

\* some aggregator raises for the next group: the aggregators of the columns
\* before it have been called, those after it are not, no row is yielded
MultiAggCallRaise(v) ==
    /\ views[v].cls = "MultiAggregateView"
    /\ gens[v].pc = "groups"
    /\ gens[v].it # <<>>
    /\ LET g == gens[v]
           rows == nextgroup(g.srcflds, views[v].key, g.it)
           cs == aggcalls(g.srcflds, g.aggregation, rows)
           fails(j) == aggraises(cs[j].fn, cs[j].args)
       IN  /\ \E j \in 1..Len(cs) : fails(j)
           /\ LET j == CHOOSE n \in 1..Len(cs) : fails(n) /\ \A m \in 1..(n - 1) : ~fails(m)
              IN  /\ calls' = calls \o SubSeq(cs, 1, j)
                  /\ throw(v, [by |-> "aggregation", call |-> cs[j]])
    /\ UNCHANGED <<table, views, out>>
    /\ countreads(v)

MultiAggEnd(v) ==
    /\ views[v].cls = "MultiAggregateView"
    /\ gens[v].pc = "groups"
    /\ gens[v].it = <<>>
    /\ gens' = [gens EXCEPT ![v].pc = "done"]
    /\ UNCHANGED <<table, views, out, calls>>
    /\ countreads(v)

\* the rules drawn for the output fields 'count' and 'bars'
CountRules ==
    { Fn("len"),
      Tup(<<Fn("len")>>),
      Tup(<<Str("bar"), Fn("sum")>>),
      Tup(<<Tup(<<Str("bar"), Fn("sum")>>)>>) }
BarsRules ==
    { Str("bar"),
      Tup(<<Str("bar")>>),
      Tup(<<Tup(<<Str("foo"), Str("bar")>>), Fn("list")>>),
      Tup(<<Tup(<<Str("bar")>>), Fn("list")>>) }
Assignments ==
    {<<"count", r>> : r \in CountRules} \cup {<<"bars", r>> : r \in BarsRules}

AggRows == {<<a, b>> : a \in {1, 2}, b \in {1, 2}}
AggTables == {[flds |-> FooBar, rows |-> r] : r \in SeqsUpTo(AggRows, MaxAggRows)}

InitMultiAgg ==
    /\ table \in AggTables
    /\ views \in {"t7" :> aggregate(TableSrc, key, NoAggregation, NoValue, p) :
                    key \in GroupKeys, p \in BOOLEAN}
    /\ gens = ("t7" :> NewGen)
    /\ out = ("t7" :> <<>>)
    /\ calls = <<>>
    /\ reads = 0

NextMultiAgg ==
    \/ \E a \in Assignments : MultiAggSetItem("t7", a[1], a[2])
    \/ MultiAggStart("t7")
    \/ MultiAggRaise("t7")
    \/ MultiAggGroup("t7")
    \/ MultiAggEnd("t7")

SpecMultiAgg == InitMultiAgg /\ [][NextMultiAgg]_vars

\* rules that are none of the shapes itermultiaggregate normalises: the
\* empty tuple, a 1-tuple of a number, a 3-tuple, None and a number
OtherRules ==
    { Tup(<<>>),
      Tup(<<PyInt(5)>>),
      Tup(<<Str("bar"), Fn("sum"), Fn("len")>>),
      PyNone,
      PyInt(5) }

\* aggregations given to the constructor: none, a list whose second
\* tuple is ('bars',) or ('bars', 'bar', sum, len), a dict with such a rule
GivenAggregations ==
    {NoAggregation,
     ListAggregation(<<Tup(<<Str("count"), Fn("len")>>), Tup(<<Str("bars")>>)>>),
     ListAggregation(<<Tup(<<Str("count"), Fn("len")>>),
                       Tup(<<Str("bars"), Str("bar"), Fn("sum"), Fn("len")>>)>>)}
    \cup {DictAggregation(odset(odset(<<>>, "count", Fn("len")), "bars", r)) : r \in OtherRules}

OtherAssignments ==
    {<<"bars", r>> : r \in OtherRules} \cup {<<"count", Fn("len")>>, <<"bars", Str("bar")>>}

InitOtherRules ==
    /\ table \in AggTables
    /\ views \in {"t7" :> aggregate(TableSrc, FieldKey("foo"), a, NoValue, p) :
                    a \in GivenAggregations, p \in BOOLEAN}
    /\ gens = ("t7" :> NewGen)
    /\ out = ("t7" :> <<>>)
    /\ calls = <<>>
    /\ reads = 0

NextOtherRules ==
    \/ \E a \in OtherAssignments : MultiAggSetItem("t7", a[1], a[2])
    \/ MultiAggStart("t7")
    \/ MultiAggRaise("t7")
    \/ MultiAggGroup("t7")
    \/ MultiAggEnd("t7")

SpecOtherRules == InitOtherRules /\ [][NextOtherRules]_vars

(***************************************************************************)
(* mergeduplicates and MergeDuplicatesView.  An output cell is a value or  *)
(* a Conflict, a frozenset of values.                                      *)
(***************************************************************************)
Value(x) == [t |-> "value", v |-> {x}]
Conflict(items) == [t |-> "conflict", v |-> items]

MergeDuplicatesView_sorts(source, key, missing, presorted) ==
    [cls |-> "MergeDuplicatesView", table |-> SortSrc(source, key, FALSE),
     key |-> key, missing |-> missing]

MergeDuplicatesView(source, key, missing, presorted) ==
    [cls |-> "MergeDuplicatesView",
     table |-> IF presorted THEN source ELSE SortSrc(source, key, FALSE),
     key |-> key, missing |-> missing]

mergeduplicates(source, key, missing, presorted) ==
    MergeDuplicatesView(source, key, missing, presorted)

\* determine output fields: the key fields, then the other fields
valflds(fields, key) == SelectSeq(fields, LAMBDA f : f \notin Range(key.f))
valfldidxs(fields, key) == asindices(fields, valflds(fields, key))
mergeheader(fields, key) == key.f \o valflds(fields, key)

mergedvals_keepmissing(grp, i, missing) ==
    {grp[n][i] : n \in {m \in 1..Len(grp) : Len(grp[m]) >= i}}

\* set(row[i] for row in grp if len(row) > i and row[i] != missing), i
\* counted from 1 here
mergedvals(grp, i, missing) ==
    {grp[n][i] : n \in {m \in 1..Len(grp) : Len(grp[m]) >= i /\ grp[m][i] # missing}}

normedval_noscalar(vals, missing) ==
    IF Cardinality(vals) = 0 THEN Value(missing) ELSE Conflict(vals)

\* vals.pop() if len(vals) == 1 else missing if len(vals) == 0
\* else Conflict(vals)
normedval(vals, missing) ==
    IF Cardinality(vals) = 1 THEN Value(CHOOSE x \in vals : TRUE)
    ELSE IF Cardinality(vals) = 0 THEN Value(missing)
    ELSE Conflict(vals)

mergerow(fields, key, missing, grp) ==
    LET k == getkey(fields, key, grp[1])
        idxs == valfldidxs(fields, key)
    IN  (IF key.kind = "field" THEN <<k>> ELSE k)
        \o [j \in 1..Len(idxs) |-> normedval(mergedvals(grp, idxs[j], missing), missing)]

\* first resumption: the header is peeked from the table, the output
\* header is yielded
MergeStart(v) ==
    /\ views[v].cls = "MergeDuplicatesView"
    /\ gens[v].pc = "start"
    /\ gens' = [gens EXCEPT ![v] = [pc |-> "groups", opened |-> TRUE,
                                    it |-> pendingtable(v)]]
    /\ out' = [out EXCEPT ![v] = <<mergeheader(table.flds, views[v].key)>>]
    /\ UNCHANGED <<table, views, calls>>
    /\ countreads(v)

MergeGroup(v) ==
    /\ views[v].cls = "MergeDuplicatesView"
    /\ gens[v].pc = "groups"
    /\ gens[v].it # <<>>
    /\ LET key == views[v].key
           grp == nextgroup(table.flds, key, gens[v].it)
       IN  /\ out' = [out EXCEPT ![v] =
                        Append(@, mergerow(table.flds, key, views[v].missing, grp))]
           /\ gens' = [gens EXCEPT ![v].it = aftergroup(table.flds, key, gens[v].it)]
    /\ UNCHANGED <<table, views, calls>>
    /\ countreads(v)

MergeEnd(v) ==
    /\ views[v].cls = "MergeDuplicatesView"
    /\ gens[v].pc = "groups"
    /\ gens[v].it = <<>>
    /\ gens' = [gens EXCEPT ![v].pc = "done"]
    /\ UNCHANGED <<table, views, out, calls>>
    /\ countreads(v)

\* tables over the header (foo, bar, baz) whose rows may lack trailing
\* fields; None is among the values of bar and baz
MaxMergeRows == 3
FooBarBaz == <<"foo", "bar", "baz">>
MergeRows ==
    {<<a>> : a \in {1, 2}}
    \cup {<<a, b>> : a \in {1, 2}, b \in {None, 1, 2}}
    \cup {<<a, 1, c>> : a \in {1, 2}, c \in {None, 1, 2}}
MergeTables == {[flds |-> FooBarBaz, rows |-> r] : r \in SeqsUpTo(MergeRows, MaxMergeRows)}
MergeKeys == {FieldKey("foo"), FieldsKey(<<"foo", "bar">>)}
Sentinels == {None, 2}

\* every row has the fields of the key
keyed(t, key) ==
    \A i \in 1..Len(t.rows) : \A n \in 1..Len(key.f) : Len(t.rows[i]) >= IndexOf(t.flds, key.f[n])

InitMerge ==
    /\ table \in MergeTables
    /\ views \in {"t2" :> mergeduplicates(TableSrc, key, m, p) :
                    key \in MergeKeys, m \in Sentinels, p \in BOOLEAN}
    /\ keyed(table, views["t2"].key)
    /\ gens = ("t2" :> NewGen)
    /\ out = ("t2" :> <<>>)
    /\ calls = <<>>
    /\ reads = 0

NextMerge ==
    \/ MergeStart("t2")
    \/ MergeGroup("t2")
    \/ MergeEnd("t2")

SpecMerge == InitMerge /\ [][NextMerge]_vars

(***************************************************************************)
(* fold and FoldView.                                                      *)
(***************************************************************************)
FoldView(source, key, f, value, presorted) ==
    [cls |-> "FoldView",
     table |-> IF presorted THEN source ELSE SortSrc(source, key, FALSE),
     key |-> key, f |-> f, value |-> value]

fold(source, key, f, value, presorted) == FoldView(source, key, f, value, presorted)

\* the binary functions of the model: operator.add and operator.sub on
\* numbers, operator.add on rows (concatenation)
applyf(f, a, b) ==
    IF f \in {"add", "addfail"} THEN a + b
    ELSE IF f = "sub" THEN a - b
    ELSE a \o b

RECURSIVE reduce_right(_, _)
reduce_right(f, grp) ==
    IF Len(grp) = 1 THEN grp[1] ELSE applyf(f, grp[1], reduce_right(f, Tail(grp)))

\* reduce(f, grp) without initializer: the first member is the accumulator,
\* every later member is folded into it
RECURSIVE reducefrom(_, _, _)
reducefrom(f, acc, rest) ==
    IF rest = <<>> THEN acc ELSE reducefrom(f, applyf(f, acc, rest[1]), Tail(rest))

reduce(f, grp) == reducefrom(f, grp[1], Tail(grp))

\* the calls reduce makes to f, in order
RECURSIVE reducecalls(_, _, _)
reducecalls(f, acc, rest) ==
    IF rest = <<>> THEN <<>>
    ELSE <<[fn |-> "f", a |-> acc, b |-> rest[1]]>>
         \o reducecalls(f, applyf(f, acc, rest[1]), Tail(rest))

\* a fold function that raises: "addfail" adds, and raises ValueError when
\* the value it is to add is 2
fraises(f, a, b) == f = "addfail" /\ b = 2

\* first resumption: the fixed header; the table is not opened yet
FoldStart(v) ==
    /\ views[v].cls = "FoldView"
    /\ gens[v].pc = "start"
    /\ gens' = [gens EXCEPT ![v].pc = "groups"]
    /\ out' = [out EXCEPT ![v] = <<(<<"key", "value">>)>>]
    /\ UNCHANGED <<table, views, calls>>
    /\ countreads(v)

FoldGroup(v) ==
    /\ views[v].cls = "FoldView"
    /\ gens[v].pc = "groups"
    /\ pendingtable(v) # <<>>
    /\ LET key == views[v].key
           rows == nextgroup(table.flds, key, pendingtable(v))
           grp == groupvalues(table.flds, views[v].value, rows)
           k == getkey(table.flds, key, rows[1])
           cs == reducecalls(views[v].f, grp[1], Tail(grp))
       IN  /\ \A j \in 1..Len(cs) : ~fraises(views[v].f, cs[j].a, cs[j].b)
           /\ calls' = calls \o cs
           /\ out' = [out EXCEPT ![v] = Append(@, <<k, reduce(views[v].f, grp)>>)]
           /\ gens' = [gens EXCEPT ![v] = [pc |-> "groups", opened |-> TRUE,
                                           it |-> aftergroup(table.flds, key, pendingtable(v))]]
    /\ UNCHANGED <<table, views>>
    /\ countreads(v)

\* f raises in the fold of the next group: reduce stops at that call
FoldCallRaise(v) ==
    /\ views[v].cls = "FoldView"
    /\ gens[v].pc = "groups"
    /\ pendingtable(v) # <<>>
    /\ LET rows == nextgroup(table.flds, views[v].key, pendingtable(v))
           grp == groupvalues(table.flds, views[v].value, rows)
           cs == reducecalls(views[v].f, grp[1], Tail(grp))
           fails(j) == fraises(views[v].f, cs[j].a, cs[j].b)
       IN  /\ \E j \in 1..Len(cs) : fails(j)
           /\ LET j == CHOOSE n \in 1..Len(cs) : fails(n) /\ \A m \in 1..(n - 1) : ~fails(m)
              IN  /\ calls' = calls \o SubSeq(cs, 1, j)
                  /\ throw(v, [by |-> "f", call |-> cs[j]])
    /\ UNCHANGED <<table, views, out>>
    /\ countreads(v)

FoldEnd(v) ==
    /\ views[v].cls = "FoldView"
    /\ gens[v].pc = "groups"
    /\ pendingtable(v) = <<>>
    /\ gens' = [gens EXCEPT ![v] = [pc |-> "done", opened |-> TRUE, it |-> <<>>]]
    /\ UNCHANGED <<table, views, out, calls>>
    /\ countreads(v)

\* f and value as drawn together: numbers are added or subtracted, whole
\* rows are concatenated
Folds == {<<"add", <<"bar">>>>, <<"sub", <<"bar">>>>, <<"concat", NoValue>>}

InitFold ==
    /\ table \in FooBarTables
    /\ views \in {"t2" :> fold(TableSrc, key, a[1], a[2], p) :
                    key \in GroupKeys, a \in Folds, p \in BOOLEAN}
    /\ gens = ("t2" :> NewGen)
    /\ out = ("t2" :> <<>>)
    /\ calls = <<>>
    /\ reads = 0

NextFold ==
    \/ FoldStart("t2")
    \/ FoldGroup("t2")
    \/ FoldEnd("t2")

SpecFold == InitFold /\ [][NextFold]_vars

(***************************************************************************)
(* select, RowSelectView and FieldSelectView.                              *)
(*                                                                         *)
(* What a predicate returns is a Python value: a bool, an int or None.     *)
(***************************************************************************)
topy(x) == IF x = None THEN PyNone ELSE PyInt(x)

\* int(x) of a bool or an int: True is 1 and False is 0
asint(x) == x.n

\* x != b for a bool b: a bool or an int differs from b when its number
\* does (True == 1, False == 0); None differs from both
pyne(x, b) == x.t = "none" \/ asint(x) # (IF b THEN 1 ELSE 0)

\* Record(row, flds, missing)[f]: the value of the field, or missing when
\* the row is too short to have it
Record(row, flds, missing) == [row |-> row, flds |-> flds, missing |-> missing]
recget(rec, f) ==
    LET i == IndexOf(rec.flds, f)
    IN  IF i <= Len(rec.row) THEN rec.row[i] ELSE rec.missing

\* a record whose tuple is the row filled up with missing to the header's
\* length
RECURSIVE astuple_padded(_)
astuple_padded(rec) ==
    IF Len(rec.row) >= Len(rec.flds) THEN rec.row
    ELSE astuple_padded([rec EXCEPT !.row = Append(@, rec.missing)])

\* tuple(rec): a record is a tuple of the row's own values
astuple(rec) == rec.row

\* a predicate: the function and the value it closes over
Where(fn, value) == [fn |-> fn, value |-> value]

\* field predicates: lambda v: op(v, value) for operator.eq and operator.gt,
\* lambda v: bool(v) (false of None and of 0, which are one value here), and
\* the callers' lambda v: v % value and lambda v: v; on the tuple of a
\* compound field, lambda v: v[0]
applywhere(where, v) ==
    IF where.fn \in {"eq", "eqfail"} THEN PyBool(v = where.value)
    ELSE IF where.fn = "gt" THEN PyBool(v > where.value)
    ELSE IF where.fn = "bool" THEN PyBool(v # None)
    ELSE IF where.fn = "mod" THEN PyInt(v % where.value)
    \* the lambdas of the range selections, value being (minv, maxv)
    ELSE IF where.fn = "rangeopenleft"
        THEN PyBool(where.value[1] <= v /\ v < where.value[2])
    ELSE IF where.fn = "rangeopenright"
        THEN PyBool(where.value[1] < v /\ v <= where.value[2])
    ELSE IF where.fn = "rangeopen"
        THEN PyBool(where.value[1] <= v /\ v <= where.value[2])
    ELSE IF where.fn = "rangeclosed"
        THEN PyBool(where.value[1] < v /\ v < where.value[2])
    ELSE IF where.fn = "first" THEN topy(v[1])
    ELSE topy(v)

\* row predicates: lambda row: len(row) == n, and the callers'
\* lambda rec: rec['bar']
applyrowwhere(where, rec) ==
    IF where.fn \in {"rowlen", "rowlenfail"} THEN PyBool(Len(rec.row) = where.value)
    ELSE topy(recget(rec, "bar"))

\* predicates that raise: "eqfail" compares like eq and raises ValueError
\* for the value 2; "rowlenfail" compares the length of the row and raises
\* for a row of one value
whereraises(where, v) == where.fn = "eqfail" /\ v = 2
rowwhereraises(where, rec) == where.fn = "rowlenfail" /\ Len(rec.row) = 1

RowSelectView(source, where, missing, complement) ==
    [cls |-> "RowSelectView", source |-> source, where |-> where,
     missing |-> missing, complement |-> complement]

FieldSelectView(source, field, where, complement) ==
    [cls |-> "FieldSelectView", source |-> source, field |-> field,
     where |-> where, complement |-> complement]

\* select(table, *args, missing=..., complement=...)
select(source, args, missing, complement) ==
    IF Len(args) = 1 THEN RowSelectView(source, args[1], missing, complement)
    ELSE FieldSelectView(source, args[1], args[2], complement)

rowlenselect(source, n, complement) ==
    select(source, <<Where("rowlen", n)>>, None, complement)

selectop(source, field, value, op, complement) ==
    select(source, <<field, Where(op, value)>>, None, complement)

selecteq(source, field, value, complement) == selectop(source, field, value, "eq", complement)
selectgt(source, field, value, complement) == selectop(source, field, value, "gt", complement)
selecttrue(source, field, complement) ==
    select(source, <<field, Where("bool", None)>>, None, complement)

selectrangeopenleft(source, field, minv, maxv, complement) ==
    select(source, <<field, Where("rangeopenleft", <<minv, maxv>>)>>, None, complement)
selectrangeopenright(source, field, minv, maxv, complement) ==
    select(source, <<field, Where("rangeopenright", <<minv, maxv>>)>>, None, complement)
selectrangeopen(source, field, minv, maxv, complement) ==
    select(source, <<field, Where("rangeopen", <<minv, maxv>>)>>, None, complement)
selectrangeclosed(source, field, minv, maxv, complement) ==
    select(source, <<field, Where("rangeclosed", <<minv, maxv>>)>>, None, complement)

\* one whole iteration of a selection over the table t: the header and the
\* rows kept, in the order of the source
yielded(rows) == [raised |-> FALSE, out |-> rows]

\* the first of 1..n for which F holds, n + 1 when there is none
firstfail(n, F(_)) ==
    IF \E i \in 1..n : F(i)
    THEN CHOOSE i \in 1..n : F(i) /\ \A j \in 1..(i - 1) : ~F(j)
    ELSE n + 1

\* a row selection goes as far as the first row for which the predicate
\* raises
rowselectall(w, t) ==
    LET rows == iterrows(w.source, t)
        stop == firstfail(Len(rows),
                    LAMBDA i : rowwhereraises(w.where, Record(rows[i], t.flds, w.missing)))
    IN  [raised |-> stop <= Len(rows) \/ srcraises(w.source, t),
         out |-> <<t.flds>> \o SelectSeq(SubSeq(rows, 1, stop - 1),
                    LAMBDA r : pyne(applyrowwhere(w.where, Record(r, t.flds, w.missing)),
                                    w.complement))]

\* a field selection goes as far as the first row too short for the field
\* or for whose value the predicate raises
fieldselectall(w, t) ==
    LET rows == iterrows(w.source, t)
        idxs == asindices(t.flds, w.field.f)
        short(i) == \E n \in 1..Len(idxs) : idxs[n] > Len(rows[i])
        stop == firstfail(Len(rows),
                    LAMBDA i : short(i) \/ whereraises(w.where, itemgetter(idxs, rows[i])))
    IN  [raised |-> stop <= Len(rows) \/ srcraises(w.source, t),
         out |-> <<t.flds>> \o SelectSeq(SubSeq(rows, 1, stop - 1),
                    LAMBDA r : pyne(applywhere(w.where, itemgetter(idxs, r)), w.complement))]

selected_complement(w, t) ==
    IF w.cls = "RowSelectView" THEN rowselectall([w EXCEPT !.complement = ~@], t)
    ELSE fieldselectall([w EXCEPT !.complement = ~@], t)

selected(w, t) ==
    IF w.cls = "RowSelectView" THEN rowselectall(w, t) ELSE fieldselectall(w, t)

(***************************************************************************)
(* iterfieldselect and iterrowselect, one action per step of the           *)
(* generator: the header, then each row read from the source.              *)
(***************************************************************************)
\* the header is read from the source and yielded
FieldSelectStart(v) ==
    /\ views[v].cls = "FieldSelectView"
    /\ gens[v].pc = "start"
    /\ gens' = [gens EXCEPT ![v] = [pc |-> "rows", opened |-> TRUE, it |-> pending(v)]]
    /\ out' = [out EXCEPT ![v] = <<table.flds>>]
    /\ UNCHANGED <<table, views, calls>>
    /\ countreads(v)

fieldindices(v) == asindices(table.flds, views[v].field.f)
hasfields(v, row) == \A n \in 1..Len(fieldindices(v)) : fieldindices(v)[n] <= Len(row)

\* the next row has the field: the predicate is called with its value and
\* the row is yielded when the result differs from complement
FieldSelectRow(v) ==
    /\ views[v].cls = "FieldSelectView"
    /\ gens[v].pc = "rows"
    /\ gens[v].it # <<>>
    /\ LET row == Head(gens[v].it)
       IN  /\ hasfields(v, row)
           /\ ~whereraises(views[v].where, itemgetter(fieldindices(v), row))
           /\ calls' = Append(calls, [fn |-> "where", view |-> v, row |-> row])
           /\ out' = [out EXCEPT ![v] =
                        IF pyne(applywhere(views[v].where, itemgetter(fieldindices(v), row)),
                                views[v].complement)
                        THEN Append(@, row) ELSE @]
           /\ gens' = [gens EXCEPT ![v].it = Tail(@)]
    /\ UNCHANGED <<table, views>>
    /\ countreads(v)

\* the next row is too short to have the field: itemgetter raises
\* IndexError out of the generator
FieldSelectRaise(v) ==
    /\ views[v].cls = "FieldSelectView"
    /\ gens[v].pc = "rows"
    /\ gens[v].it # <<>>
    /\ ~hasfields(v, Head(gens[v].it))
    /\ gens' = [gens EXCEPT ![v] = [pc |-> "raised", opened |-> TRUE, it |-> Tail(@.it)]]
    /\ UNCHANGED <<table, views, out, calls>>
    /\ countreads(v)

\* the predicate raises for the value of the next row
FieldSelectCallRaise(v) ==
    /\ views[v].cls = "FieldSelectView"
    /\ gens[v].pc = "rows"
    /\ gens[v].it # <<>>
    /\ LET row == Head(gens[v].it)
           c == [fn |-> "where", view |-> v, row |-> row]
       IN  /\ hasfields(v, row)
           /\ whereraises(views[v].where, itemgetter(fieldindices(v), row))
           /\ calls' = Append(calls, c)
           /\ throw(v, [by |-> "where", call |-> c])
    /\ UNCHANGED <<table, views, out>>
    /\ countreads(v)

FieldSelectEnd(v) ==
    /\ views[v].cls = "FieldSelectView"
    /\ gens[v].pc = "rows"
    /\ gens[v].it = <<>>
    /\ ~srcraises(views[v].source, table)
    /\ gens' = [gens EXCEPT ![v].pc = "done"]
    /\ UNCHANGED <<table, views, out, calls>>
    /\ countreads(v)

RowSelectStart(v) ==
    /\ views[v].cls = "RowSelectView"
    /\ gens[v].pc = "start"
    /\ gens' = [gens EXCEPT ![v] = [pc |-> "rows", opened |-> TRUE, it |-> pending(v)]]
    /\ out' = [out EXCEPT ![v] = <<table.flds>>]
    /\ UNCHANGED <<table, views, calls>>
    /\ countreads(v)

\* the next row is wrapped in a Record, the predicate is called with it
RowSelectRow(v) ==
    /\ views[v].cls = "RowSelectView"
    /\ gens[v].pc = "rows"
    /\ gens[v].it # <<>>
    /\ LET row == Head(gens[v].it)
           rec == Record(row, table.flds, views[v].missing)
       IN  /\ ~rowwhereraises(views[v].where, rec)
           /\ calls' = Append(calls, [fn |-> "where", view |-> v, row |-> row])
           /\ out' = [out EXCEPT ![v] =
                        IF pyne(applyrowwhere(views[v].where, rec), views[v].complement)
                        THEN Append(@, astuple(rec)) ELSE @]
           /\ gens' = [gens EXCEPT ![v].it = Tail(@)]
    /\ UNCHANGED <<table, views>>
    /\ countreads(v)

\* the predicate raises for the record of the next row
RowSelectCallRaise(v) ==
    /\ views[v].cls = "RowSelectView"
    /\ gens[v].pc = "rows"
    /\ gens[v].it # <<>>
    /\ LET row == Head(gens[v].it)
           c == [fn |-> "where", view |-> v, row |-> row]
       IN  /\ rowwhereraises(views[v].where, Record(row, table.flds, views[v].missing))
           /\ calls' = Append(calls, c)
           /\ throw(v, [by |-> "where", call |-> c])
    /\ UNCHANGED <<table, views, out>>
    /\ countreads(v)

RowSelectEnd(v) ==
    /\ views[v].cls = "RowSelectView"
    /\ gens[v].pc = "rows"
    /\ gens[v].it = <<>>
    /\ ~srcraises(views[v].source, table)
    /\ gens' = [gens EXCEPT ![v].pc = "done"]
    /\ UNCHANGED <<table, views, out, calls>>
    /\ countreads(v)

\* `for row in it`: the source, a selection itself, raises when asked for
\* its next row, and the exception passes through the generator
SelectSourceRaise(v) ==
    /\ views[v].cls \in {"RowSelectView", "FieldSelectView"}
    /\ gens[v].pc = "rows"
    /\ gens[v].it = <<>>
    /\ srcraises(views[v].source, table)
    /\ gens' = [gens EXCEPT ![v].pc = "raised"]
    /\ UNCHANGED <<table, views, out, calls>>
    /\ countreads(v)

\* tables over the header (foo, bar) whose rows may lack bar
MaxSelectRows == 2
SelectRows == {<<a>> : a \in {1, 2}} \cup {<<a, b>> : a \in {1, 2}, b \in {1, 2}}
SelectTables == {[flds |-> FooBar, rows |-> r] : r \in SeqsUpTo(SelectRows, MaxSelectRows)}

\* the arguments of select drawn for the model: a field and a field
\* predicate, or a row predicate, and the missing value
SelectArgs ==
    {[args |-> <<FieldKey("foo"), Where("gt", 1)>>, missing |-> None],
     [args |-> <<FieldKey("bar"), Where("bool", None)>>, missing |-> None],
     [args |-> <<FieldKey("bar"), Where("mod", 2)>>, missing |-> None],
     [args |-> <<FieldKey("foo"), Where("itself", None)>>, missing |-> None],
     [args |-> <<FieldsKey(<<"foo", "bar">>), Where("first", None)>>, missing |-> None],
     [args |-> <<Where("rowlen", 2)>>, missing |-> None],
     [args |-> <<Where("recbar", None)>>, missing |-> None],
     [args |-> <<Where("recbar", None)>>, missing |-> 2]}

\* the same selection twice, once with complement=False and once with
\* complement=True
InitSelect ==
    /\ table \in SelectTables
    /\ views \in {("kept" :> select(TableSrc, a.args, a.missing, FALSE))
                  @@ ("dropped" :> select(TableSrc, a.args, a.missing, TRUE)) :
                    a \in SelectArgs}
    /\ gens = [v \in {"kept", "dropped"} |-> NewGen]
    /\ out = [v \in {"kept", "dropped"} |-> <<>>]
    /\ calls = <<>>
    /\ reads = 0

NextSelect ==
    \/ \E v \in DOMAIN views : FieldSelectStart(v)
    \/ \E v \in DOMAIN views : FieldSelectRow(v)
    \/ \E v \in DOMAIN views : FieldSelectRaise(v)
    \/ \E v \in DOMAIN views : FieldSelectEnd(v)
    \/ \E v \in DOMAIN views : RowSelectStart(v)
    \/ \E v \in DOMAIN views : RowSelectRow(v)
    \/ \E v \in DOMAIN views : RowSelectEnd(v)

SpecSelect == InitSelect /\ [][NextSelect]_vars

\* the range selections, over bar: values below, at, between and above the
\* bounds, and rows without bar
MaxRangeRows == 2
RangeRows == {<<1>>} \cup {<<1, b>> : b \in 1..5}
RangeTables == {[flds |-> FooBar, rows |-> r] : r \in SeqsUpTo(RangeRows, MaxRangeRows)}
RangeBounds == {<<2, 4>>, <<2, 3>>, <<3, 3>>}
RangeSelects ==
    UNION {{selectrangeopenleft(TableSrc, FieldKey("bar"), b[1], b[2], c),
            selectrangeopenright(TableSrc, FieldKey("bar"), b[1], b[2], c),
            selectrangeopen(TableSrc, FieldKey("bar"), b[1], b[2], c),
            selectrangeclosed(TableSrc, FieldKey("bar"), b[1], b[2], c)} :
                b \in RangeBounds, c \in BOOLEAN}

InitRange ==
    /\ table \in RangeTables
    /\ views \in {"t2" :> w : w \in RangeSelects}
    /\ gens = ("t2" :> NewGen)
    /\ out = ("t2" :> <<>>)
    /\ calls = <<>>
    /\ reads = 0

NextRange ==
    \/ FieldSelectStart("t2")
    \/ FieldSelectRow("t2")
    \/ FieldSelectRaise("t2")
    \/ FieldSelectEnd("t2")

SpecRange == InitRange /\ [][NextRange]_vars

\* a selection, and the same selection of that selection:
\* once = select(table, ...), twice = select(select(table, ...), ...)
InitTwice ==
    /\ table \in SelectTables
    /\ views \in {("once" :> select(TableSrc, a.args, a.missing, c))
                  @@ ("twice" :> select(ViewSrc(select(TableSrc, a.args, a.missing, c)),
                                        a.args, a.missing, c)) :
                    a \in SelectArgs, c \in BOOLEAN}
    /\ gens = [v \in {"once", "twice"} |-> NewGen]
    /\ out = [v \in {"once", "twice"} |-> <<>>]
    /\ calls = <<>>
    /\ reads = 0

NextTwice ==
    \/ NextSelect
    \/ \E v \in DOMAIN views : SelectSourceRaise(v)

SpecTwice == InitTwice /\ [][NextTwice]_vars

(***************************************************************************)
(* selectusingcontext and SelectUsingContextView.  A local that holds a    *)
(* row or None is a sequence of no row or of one row.                      *)
(***************************************************************************)
Absent == <<>>
Some(row) == <<row>>

SelectUsingContextView(source, query) ==
    [cls |-> "SelectUsingContextView", table |-> source, query |-> query]

selectusingcontext(source, query) == SelectUsingContextView(source, query)

truthy(x) == x.t # "none" /\ asint(x) # 0

\* the queries of the model, called with Records: the docstring's
\*     (prv is not None and (cur.bar - prv.bar) < 2)
\*         or (nxt is not None and (nxt.bar - cur.bar) < 2)
\* and lambda prv, cur, nxt: prv is None, ...: nxt is None, ...: cur.bar % 2
applyquery(query, prv, cur, nxt) ==
    LET bar(rec) == recget(rec, "bar")
    IN  IF query = "near"
        THEN PyBool(\/ (Len(prv) = 1 /\ bar(cur) - bar(prv[1]) < 2)
                    \/ (Len(nxt) = 1 /\ bar(nxt[1]) - bar(cur) < 2))
        ELSE IF query \in {"isfirst", "isfirstfail"} THEN PyBool(Len(prv) = 0)
        ELSE IF query = "islast" THEN PyBool(Len(nxt) = 0)
        ELSE PyInt(bar(cur) % 2)

\* a query that raises: "isfirstfail" is true of the first row, and raises
\* ValueError for a current row whose bar is 2
queryraises(query, prv, cur, nxt) == query = "isfirstfail" /\ recget(cur, "bar") = 2

querycall(v, g) ==
    [fn |-> "query", view |-> v,
     prv |-> [i \in 1..Len(g.prv) |-> g.prv[i].row],
     cur |-> g.cur[1].row,
     nxt |-> [i \in 1..Len(g.nxt) |-> g.nxt[i].row],
     ret |-> applyquery(views[v].query, g.prv, g.cur[1], g.nxt)]

advance_keepprv(g) == [g EXCEPT !.cur = g.nxt, !.nxt = Absent]

\* prv = cur; cur = nxt
advance(g) == [g EXCEPT !.prv = g.cur, !.cur = g.nxt, !.nxt = Absent]

\* the header is read from the table and yielded
ContextStart(v) ==
    /\ views[v].cls = "SelectUsingContextView"
    /\ gens[v].pc = "start"
    /\ gens' = [gens EXCEPT ![v] = [pc |-> "first", opened |-> TRUE, it |-> pendingtable(v),
                                    prv |-> Absent, cur |-> Absent, nxt |-> Absent]]
    /\ out' = [out EXCEPT ![v] = <<table.flds>>]
    /\ UNCHANGED <<table, views, calls>>
    /\ countreads(v)

\* prv = None; cur = next(it), there being a first row
ContextFirst(v) ==
    /\ views[v].cls = "SelectUsingContextView"
    /\ gens[v].pc = "first"
    /\ gens[v].it # <<>>
    /\ gens' = [gens EXCEPT ![v].pc = "loop",
                            ![v].cur = Some(Record(Head(gens[v].it), table.flds, None)),
                            ![v].it = Tail(@)]
    /\ UNCHANGED <<table, views, out, calls>>
    /\ countreads(v)

\* cur = next(it), there being no row: next raises StopIteration inside the
\* generator, which ends it (before PEP 479) or becomes a RuntimeError
ContextEmpty(v) ==
    /\ views[v].cls = "SelectUsingContextView"
    /\ gens[v].pc = "first"
    /\ gens[v].it = <<>>
    /\ \E outcome \in {"done", "raised"} : gens' = [gens EXCEPT ![v].pc = outcome]
    /\ UNCHANGED <<table, views, out, calls>>
    /\ countreads(v)

\* for nxt in it: the next row is read
ContextNext(v) ==
    /\ views[v].cls = "SelectUsingContextView"
    /\ gens[v].pc = "loop"
    /\ gens[v].it # <<>>
    /\ gens' = [gens EXCEPT ![v].pc = "query",
                            ![v].nxt = Some(Record(Head(gens[v].it), table.flds, None)),
                            ![v].it = Tail(@)]
    /\ UNCHANGED <<table, views, out, calls>>
    /\ countreads(v)

\* the body of the loop: the query is called, cur is yielded when it
\* returns a true value, the rows move up
ContextQuery(v) ==
    /\ views[v].cls = "SelectUsingContextView"
    /\ gens[v].pc = "query"
    /\ ~queryraises(views[v].query, gens[v].prv, gens[v].cur[1], gens[v].nxt)
    /\ LET c == querycall(v, gens[v])
       IN  /\ calls' = Append(calls, c)
           /\ out' = [out EXCEPT ![v] = IF truthy(c.ret) THEN Append(@, c.cur) ELSE @]
    /\ gens' = [gens EXCEPT ![v] = [advance(@) EXCEPT !.pc = "loop"]]
    /\ UNCHANGED <<table, views>>
    /\ countreads(v)

\* handle last row: the query is called with None as nxt
ContextLast(v) ==
    /\ views[v].cls = "SelectUsingContextView"
    /\ gens[v].pc = "loop"
    /\ gens[v].it = <<>>
    /\ ~queryraises(views[v].query, gens[v].prv, gens[v].cur[1], gens[v].nxt)
    /\ LET c == querycall(v, gens[v])
       IN  /\ calls' = Append(calls, c)
           /\ out' = [out EXCEPT ![v] = IF truthy(c.ret) THEN Append(@, c.cur) ELSE @]
    /\ gens' = [gens EXCEPT ![v].pc = "done"]
    /\ UNCHANGED <<table, views>>
    /\ countreads(v)

\* the query raises, in the body of the loop or in the call for the last
\* row: cur is not yielded
ContextCallRaise(v) ==
    /\ views[v].cls = "SelectUsingContextView"
    /\ gens[v].pc = "query" \/ (gens[v].pc = "loop" /\ gens[v].it = <<>>)
    /\ LET g == gens[v]
           c == [fn |-> "query", view |-> v,
                 prv |-> [i \in 1..Len(g.prv) |-> g.prv[i].row],
                 cur |-> g.cur[1].row,
                 nxt |-> [i \in 1..Len(g.nxt) |-> g.nxt[i].row]]
       IN  /\ queryraises(views[v].query, g.prv, g.cur[1], g.nxt)
           /\ calls' = Append(calls, c)
           /\ throw(v, [by |-> "query", call |-> c])
    /\ UNCHANGED <<table, views, out>>
    /\ countreads(v)

Queries == {"near", "isfirst", "islast", "barodd"}

InitContext ==
    /\ table \in FooBarTables
    /\ views \in {"t2" :> selectusingcontext(TableSrc, q) : q \in Queries}
    /\ gens = ("t2" :> NewGen)
    /\ out = ("t2" :> <<>>)
    /\ calls = <<>>
    /\ reads = 0

NextContext ==
    \/ ContextStart("t2")
    \/ ContextFirst("t2")
    \/ ContextEmpty("t2")
    \/ ContextNext("t2")
    \/ ContextQuery("t2")
    \/ ContextLast("t2")

SpecContext == InitContext /\ [][NextContext]_vars

(***************************************************************************)
(* facet: a dict from each value of the field to the selection of the rows *)
(* with that value.  The views of the dict are named by their keys.        *)
(***************************************************************************)
\* values(table, field): the value of the field in each row, None for a
\* row too short to have it
values(t, field) ==
    [i \in 1..Len(t.rows) |-> recget(Record(t.rows[i], t.flds, None), field)]

facet(t, field) ==
    [v \in Range(values(t, field)) |-> selecteq(TableSrc, FieldKey(field), v, FALSE)]

\* fct = facet(table, field), called once: the values of the field are read
\* from the table, a selection is made for each
Facet(field) ==
    /\ DOMAIN views = {}
    /\ reads = 0
    /\ views' = facet(table, field)
    /\ gens' = [v \in DOMAIN facet(table, field) |-> NewGen]
    /\ out' = [v \in DOMAIN facet(table, field) |-> <<>>]
    /\ UNCHANGED <<table, calls>>
    /\ reads' = reads + 1

InitFacet ==
    /\ table \in SelectTables
    /\ views = <<>>
    /\ gens = <<>>
    /\ out = <<>>
    /\ calls = <<>>
    /\ reads = 0

NextFacet ==
    \/ \E field \in Range(FooBar) : Facet(field)
    \/ \E v \in DOMAIN views : FieldSelectStart(v)
    \/ \E v \in DOMAIN views : FieldSelectRow(v)
    \/ \E v \in DOMAIN views : FieldSelectRaise(v)
    \/ \E v \in DOMAIN views : FieldSelectEnd(v)

SpecFacet == InitFacet /\ [][NextFacet]_vars

(***************************************************************************)
(* The constructors as operations: a caller makes one view of a table, or  *)
(* the views of a facet, and iterates it.                                  *)
(***************************************************************************)
fullrows(t) == \A i \in 1..Len(t.rows) : Len(t.rows[i]) = Len(t.flds)

\* the views a caller makes in the model, over the key foo
Constructed ==
    {rowreduce(TableSrc, FieldKey("foo"), "sum", NoFields, p) : p \in BOOLEAN}
    \cup {groupselectfirst(TableSrc, FieldKey("foo")),
          groupselectmin(TableSrc, FieldKey("foo"), "bar"),
          groupselectmax(TableSrc, FieldKey("foo"), "bar")}
    \cup {aggregate(TableSrc, FieldKey("foo"), a, NoValue, p) :
            a \in {CallableAggregation("len"), NoAggregation}, p \in BOOLEAN}
    \cup {mergeduplicates(TableSrc, FieldKey("foo"), None, p) : p \in BOOLEAN}
    \cup {fold(TableSrc, FieldKey("foo"), "sub", <<"bar">>, p) : p \in BOOLEAN}
    \cup {select(TableSrc, a.args, a.missing, c) : a \in SelectArgs, c \in BOOLEAN}
    \cup {selecteq(TableSrc, FieldKey("bar"), 1, FALSE),
          selectgt(TableSrc, FieldKey("foo"), 1, TRUE),
          selecttrue(TableSrc, FieldKey("foo"), FALSE),
          rowlenselect(TableSrc, 2, FALSE)}
    \cup {selectusingcontext(TableSrc, q) : q \in Queries}

\* the views that read bar of every row they are given
needsbar(w) == w.cls \notin {"RowSelectView", "FieldSelectView", "MergeDuplicatesView"}

\* t2 = constructor(table, ...): the view object is made
Construct(w) ==
    /\ DOMAIN views = {}
    /\ reads = 0
    /\ needsbar(w) => fullrows(table)
    /\ views' = ("t2" :> w)
    /\ gens' = ("t2" :> NewGen)
    /\ out' = ("t2" :> <<>>)
    /\ UNCHANGED <<table, calls, reads>>

InitViews ==
    /\ table \in SelectTables
    /\ views = <<>>
    /\ gens = <<>>
    /\ out = <<>>
    /\ calls = <<>>
    /\ reads = 0

\* every step of every generator, for the view v
Iterate(v) ==
    \/ RowReduceStart(v) \/ RowReduceGroup(v) \/ RowReduceEnd(v)
    \/ SimpleAggStart(v) \/ SimpleAggGroup(v) \/ SimpleAggEnd(v)
    \/ MultiAggStart(v) \/ MultiAggRaise(v) \/ MultiAggGroup(v) \/ MultiAggEnd(v)
    \/ MergeStart(v) \/ MergeGroup(v) \/ MergeEnd(v)
    \/ FoldStart(v) \/ FoldGroup(v) \/ FoldEnd(v)
    \/ FieldSelectStart(v) \/ FieldSelectRow(v) \/ FieldSelectRaise(v) \/ FieldSelectEnd(v)
    \/ RowSelectStart(v) \/ RowSelectRow(v) \/ RowSelectEnd(v)
    \/ ContextStart(v) \/ ContextFirst(v) \/ ContextEmpty(v)
    \/ ContextNext(v) \/ ContextQuery(v) \/ ContextLast(v)

NextViews ==
    \/ \E w \in Constructed : Construct(w)
    \/ \E field \in Range(FooBar) : Facet(field)
    \/ \E v \in DOMAIN views, a \in Assignments : MultiAggSetItem(v, a[1], a[2])
    \/ \E v \in DOMAIN views : Iterate(v)

SpecViews == InitViews /\ [][NextViews]_vars

(***************************************************************************)
(* Iterating a view again, and changing the source between iterations.     *)
(***************************************************************************)
MaxIters == 2

freshgen_resumed(v) == gens[v]

\* view.__iter__(): a new generator, with locals of its own
freshgen(v) == NewGen

\* iter(view) once more, the earlier iteration finished or abandoned where
\* it stands; out is what the new generator has yielded, and calls the
\* calls of caller functions since it was made (assignments of columns,
\* which are not made by an iteration, stay on record)
Reiterate(v) ==
    /\ gens[v].pc # "start"
    /\ reads < MaxIters
    /\ gens' = [gens EXCEPT ![v] = freshgen(v)]
    /\ out' = [out EXCEPT ![v] = <<>>]
    /\ calls' = SelectSeq(calls, LAMBDA c : c.fn = "setitem")
    /\ UNCHANGED <<table, views, reads>>

\* the caller changes the source between two iterations: a row is appended
\* or the first row is removed
Changes(t) ==
    {[t EXCEPT !.rows = Append(@, r)] : r \in {x \in SelectRows : Len(t.rows) < MaxSelectRows}}
    \cup {[t EXCEPT !.rows = Tail(@)] : x \in {y \in {1} : t.rows # <<>>}}

ChangeSource(v) ==
    /\ gens[v] = NewGen
    /\ reads > 0
    /\ \E t \in Changes(table) :
        /\ needsbar(views[v]) => fullrows(t)
        /\ table' = t
    /\ UNCHANGED <<views, gens, out, calls, reads>>

\* the aggregation lists of the model, the second with a malformed rule
Aggregations ==
    {ListAggregation(<<Tup(<<Str("count"), Fn("len")>>), Tup(<<Str("bars"), Str("bar")>>)>>),
     ListAggregation(<<Tup(<<Str("count"), Str("bar"), Fn("sum"), Fn("len")>>)>>)}

Iterated ==
    Constructed
    \cup {aggregate(TableSrc, FieldKey("foo"), a, NoValue, p) : a \in Aggregations, p \in BOOLEAN}

InitIterate ==
    /\ table \in SelectTables
    /\ views \in {"t2" :> w : w \in Iterated}
    /\ needsbar(views["t2"]) => fullrows(table)
    /\ gens = ("t2" :> NewGen)
    /\ out = ("t2" :> <<>>)
    /\ calls = <<>>
    /\ reads = 0

NextIterate ==
    \/ Iterate("t2")
    \/ Reiterate("t2")
    \/ ChangeSource("t2")

SpecIterate == InitIterate /\ [][NextIterate]_vars

(***************************************************************************)
(* rowreduce, aggregate, fold and mergeduplicates with presorted=True.     *)
(***************************************************************************)
Presorted ==
    {rowreduce(TableSrc, key, "sum", NoFields, TRUE) : key \in GroupKeys}
    \cup {aggregate(TableSrc, key, CallableAggregation(a[1]), a[2], TRUE) :
            key \in GroupKeys, a \in SimpleAggregations}
    \cup {aggregate(TableSrc, key,
                    ListAggregation(<<Tup(<<Str("count"), Fn("len")>>),
                                      Tup(<<Str("bars"), Str("bar")>>)>>),
                    NoValue, TRUE) : key \in GroupKeys}
    \cup {fold(TableSrc, key, a[1], a[2], TRUE) : key \in GroupKeys, a \in Folds}
    \cup {mergeduplicates(TableSrc, key, None, TRUE) : key \in MergeKeys}

InitPresorted ==
    /\ table \in FooBarTables
    /\ views \in {"t2" :> w : w \in Presorted}
    /\ gens = ("t2" :> NewGen)
    /\ out = ("t2" :> <<>>)
    /\ calls = <<>>
    /\ reads = 0

NextPresorted ==
    \/ NextReduce
    \/ NextSimpleAgg
    \/ MultiAggStart("t2") \/ MultiAggGroup("t2") \/ MultiAggEnd("t2")
    \/ NextFold
    \/ NextMerge

SpecPresorted == InitPresorted /\ [][NextPresorted]_vars

(***************************************************************************)
(* A multi-column aggregate to which columns are assigned before, during   *)
(* and between its iterations.                                             *)
(***************************************************************************)
LaterAssignments ==
    {<<"count", Fn("len")>>, <<"bars", Str("bar")>>, <<"count", Tup(<<Str("bar"), Fn("sum")>>)>>}

InitAssign ==
    /\ table \in AggTables
    /\ views \in {"t7" :> aggregate(TableSrc, FieldKey("foo"), a, NoValue, p) :
                    a \in {NoAggregation,
                           ListAggregation(<<Tup(<<Str("n"), Fn("len")>>)>>),
                           DictAggregation(odset(<<>>, "n", Tup(<<Fn("len")>>)))},
                    p \in BOOLEAN}
    /\ gens = ("t7" :> NewGen)
    /\ out = ("t7" :> <<>>)
    /\ calls = <<>>
    /\ reads = 0

NextAssign ==
    \/ \E a \in LaterAssignments : MultiAggSetItem("t7", a[1], a[2])
    \/ \E a \in LaterAssignments : MultiAggSetItemRunning("t7", a[1], a[2])
    \/ MultiAggStart("t7")
    \/ MultiAggGroup("t7")
    \/ MultiAggEnd("t7")
    \/ Reiterate("t7")

SpecAssign == InitAssign /\ [][NextAssign]_vars

(***************************************************************************)
(* Every selection view over one table: select with a field predicate or   *)
(* a row predicate, with and without the complement flag, and              *)
(* selectusingcontext.                                                     *)
(***************************************************************************)
Selections ==
    {select(TableSrc, a.args, a.missing, c) : a \in SelectArgs, c \in BOOLEAN}
    \cup {selectusingcontext(TableSrc, q) : q \in Queries}

InitSelections ==
    /\ table \in SelectTables \cup FooBarTables
    /\ views \in {"t2" :> w : w \in Selections}
    /\ needsbar(views["t2"]) => fullrows(table)
    /\ gens = ("t2" :> NewGen)
    /\ out = ("t2" :> <<>>)
    /\ calls = <<>>
    /\ reads = 0

NextSelections ==
    \/ FieldSelectStart("t2")
    \/ FieldSelectRow("t2")
    \/ FieldSelectRaise("t2")
    \/ FieldSelectEnd("t2")
    \/ RowSelectStart("t2")
    \/ RowSelectRow("t2")
    \/ RowSelectEnd("t2")
    \/ NextContext

SpecSelections == InitSelections /\ [][NextSelections]_vars

(***************************************************************************)
(* Iterating views whose reducer, aggregator, fold function, predicate or  *)
(* query raises for some input.                                            *)
(***************************************************************************)
Raising ==
    {rowreduce(TableSrc, FieldKey("foo"), "sumfail", NoFields, p) : p \in BOOLEAN}
    \cup {aggregate(TableSrc, FieldKey("foo"), CallableAggregation("lenfail"), val, p) :
            val \in {NoValue, <<"bar">>}, p \in BOOLEAN}
    \cup {aggregate(TableSrc, FieldKey("foo"),
                    ListAggregation(<<Tup(<<Str("count"), Fn("len")>>),
                                      Tup(<<Str("n"), Str("bar"), Fn("lenfail")>>),
                                      Tup(<<Str("bars"), Str("bar")>>)>>),
                    NoValue, p) : p \in BOOLEAN}
    \cup {fold(TableSrc, FieldKey("foo"), "addfail", <<"bar">>, p) : p \in BOOLEAN}
    \cup {select(TableSrc, <<FieldKey("foo"), Where("eqfail", 1)>>, None, c) : c \in BOOLEAN}
    \cup {select(TableSrc, <<Where("rowlenfail", 2)>>, None, c) : c \in BOOLEAN}
    \cup {selectusingcontext(TableSrc, "isfirstfail")}

InitRaise ==
    /\ table \in SelectTables \cup FooBarTables
    /\ views \in {"t2" :> w : w \in Iterated \cup Raising}
    /\ needsbar(views["t2"]) => fullrows(table)
    /\ gens = ("t2" :> NewGen)
    /\ out = ("t2" :> <<>>)
    /\ calls = <<>>
    /\ reads = 0

CallRaise(v) ==
    \/ RowReduceCallRaise(v)
    \/ SimpleAggCallRaise(v)
    \/ MultiAggCallRaise(v)
    \/ FoldCallRaise(v)
    \/ FieldSelectCallRaise(v)
    \/ RowSelectCallRaise(v)
    \/ ContextCallRaise(v)

NextRaise == Iterate("t2") \/ CallRaise("t2")

SpecRaise == InitRaise /\ [][NextRaise]_vars

(***************************************************************************)
(* Claims about rowreduce and the groupselect functions (SpecReduce).      *)
(***************************************************************************)
done(v) == gens[v].pc = "done"
callkeys == [i \in 1..Len(calls) |-> calls[i].key]
datarows(v) == Tail(out[v])
minof(S) == CHOOSE x \in S : \A y \in S : x <= y
maxof(S) == CHOOSE x \in S : \A y \in S : x >= y

\* C1: a finished iteration of rowreduce(T, K, reducer), presorted=False, has
\* emitted the header and one row per distinct key of T; the reducer was
\* called once per distinct key, in ascending key order, with that key and
\* all the rows of T that carry it, and each output row is what it returned.
C1_RowReduceOnePerKey ==
    \A key \in GroupKeys, f \in {NoFields, <<"foo", "barsum">>} :
        (views["t2"] = rowreduce(TableSrc, key, "sum", f, FALSE) /\ done("t2")) =>
            /\ out["t2"][1] = (IF f = NoFields THEN table.flds ELSE f)
            /\ Len(datarows("t2")) = Cardinality(keysof(table, key))
            /\ Len(calls) = Cardinality(keysof(table, key))
            /\ ascending(table.flds, key, callkeys)
            /\ \A i \in 1..Len(calls) :
                /\ samerows(calls[i].rows, rowsof(table, key, calls[i].key))
                /\ datarows("t2")[i] = reducer_sum(calls[i].key, calls[i].rows)

\* a finished rowreduce over a table of three rows whose keys are out of
\* order and one of whose keys is carried by two rows that are not adjacent
C1_Witness ==
    /\ views["t2"] = rowreduce(TableSrc, FieldKey("foo"), "sum", NoFields, FALSE)
    /\ done("t2")
    /\ table.rows = <<(<<2, 1>>), (<<1, 2>>), (<<2, 3>>)>>
    /\ Len(calls) = 2

RECURSIVE groupsof(_, _, _)
groupsof(flds, key, rows) ==
    IF rows = <<>> THEN <<>>
    ELSE <<nextgroup(flds, key, rows)>> \o groupsof(flds, key, aftergroup(flds, key, rows))

\* the data rows a SimpleAggregateView yields over a table t
simpleaggrows(w, t) ==
    LET gs == groupsof(t.flds, w.key, iterrows(w.table, t))
    IN  [i \in 1..Len(gs) |-> simpleaggrow(t.flds, w.key, w.aggregation, w.value, gs[i])]

permutations(rows) ==
    {[i \in 1..Len(rows) |-> rows[p[i]]] :
        p \in {q \in [1..Len(rows) -> 1..Len(rows)] : \A i, j \in 1..Len(rows) : q[i] = q[j] => i = j}}

lastcell(row) == row[Len(row)]
keycells(key, row) ==
    IF key.kind = "fields" THEN SubSeq(row, 1, Len(row) - 1) ELSE row[1]

\* C2: a finished iteration of aggregate(T, K, len) has emitted the header
\* (key field names, 'value') and one (key, count) row per distinct key, in
\* ascending key order, count being the number of rows of T with that key,
\* which is the length of the materialized group; every permutation of T's
\* rows gives the same rows.
C2_AggregateLenCounts ==
    \A key \in GroupKeys, value \in {NoValue, <<"bar">>} :
        LET w == aggregate(TableSrc, key, CallableAggregation("len"), value, FALSE)
            rows == datarows("t2")
        IN  (views["t2"] = w /\ done("t2")) =>
                /\ out["t2"][1] = (IF key.kind = "callable" THEN <<"key", "value">>
                                   ELSE key.f \o <<"value">>)
                /\ Len(rows) = Cardinality(keysof(table, key))
                /\ ascending(table.flds, key, [i \in 1..Len(rows) |-> keycells(key, rows[i])])
                /\ \A i \in 1..Len(rows) :
                    /\ Len(rows[i]) = Len(out["t2"][1])
                    /\ lastcell(rows[i]) = Len(rowsof(table, key, keycells(key, rows[i])))
                    /\ lastcell(rows[i]) =
                          Len(groupsof(table.flds, key, iterrows(w.table, table))[i])
                /\ \A r \in permutations(table.rows) :
                    simpleaggrows(w, [flds |-> table.flds, rows |-> r]) = rows

\* a finished aggregate(T, 'foo', len) over a table whose keys are out of
\* order, with the counts 1 and 2
C2_Witness ==
    /\ views["t2"] = aggregate(TableSrc, FieldKey("foo"), CallableAggregation("len"), NoValue, FALSE)
    /\ done("t2")
    /\ table.rows = <<(<<2, 1>>), (<<1, 2>>), (<<2, 3>>)>>
    /\ out["t2"] = <<(<<"foo", "value">>), (<<1, 1>>), (<<2, 2>>)>>

(***************************************************************************)
(* Claims about aggregate with several output columns (SpecMultiAgg).      *)
(***************************************************************************)
raised(v) == gens[v].pc = "raised"
aggregatorcalls == SelectSeq(calls, LAMBDA c : c.fn # "setitem")
keynames(key) == IF key.kind = "callable" THEN <<"key">> ELSE key.f

\* the names assigned, each once, in the order of their first assignment
RECURSIVE firstnames(_)
firstnames(ps) ==
    IF ps = <<>> THEN <<>>
    ELSE LET front == firstnames(SubSeq(ps, 1, Len(ps) - 1))
             n == ps[Len(ps)].name
         IN  IF n \in Range(front) THEN front ELSE Append(front, n)

\* what an aggregator is given for a source, as the claim has it
claimedshape(src) ==
    IF src.kind = "none" THEN "rows" ELSE IF src.kind = "fields" THEN "tuples" ELSE "values"

claimedargs(flds, src, shape, rows) ==
    IF shape = "rows" THEN rows
    ELSE IF shape = "tuples"
        THEN [i \in 1..Len(rows) |-> [n \in 1..Len(src.f) |-> rows[i][IndexOf(flds, src.f[n])]]]
    ELSE [i \in 1..Len(rows) |-> rows[i][IndexOf(flds, src.f[1])]]

\* C3: a finished multi-column aggregate (presorted=False) has emitted the
\* header, key names (or 'key') then the output fields in the order they
\* were defined, and one row per distinct key in ascending key order: the
\* key, then for each output field in that order its aggregator applied to
\* the whole rows of the group (no source field), to the values of the
\* source field, or to the value tuples of a compound source, in stream
\* order.
C3_MultiAggregateRows ==
    LET v == "t7"
        key == views[v].key
        d == gens[v].aggregation
        n == Len(d)
        nk == Len(keynames(key))
        stream == [flds |-> table.flds, rows |-> iterrows(views[v].source, table)]
        gs == groupsof(table.flds, key, stream.rows)
        rows == datarows(v)
    IN  (done(v) /\ views[v].source.op = "sort") =>
            /\ out[v][1] = keynames(key) \o firstnames(setitems)
            /\ [j \in 1..n |-> d[j].name] = firstnames(setitems)
            /\ Len(rows) = Cardinality(keysof(table, key))
            /\ ascending(table.flds, key,
                    [i \in 1..Len(rows) |-> getkey(table.flds, key, gs[i][1])])
            /\ Len(aggregatorcalls) = Len(rows) * n
            /\ \A i \in 1..Len(rows) :
                LET k == getkey(table.flds, key, gs[i][1])
                IN  /\ Len(rows[i]) = nk + n
                    /\ SubSeq(rows[i], 1, nk) = (IF key.kind = "fields" THEN k ELSE <<k>>)
                    /\ gs[i] = rowsof(stream, key, k)
                    /\ \A j \in 1..n :
                        LET c == aggregatorcalls[(i - 1) * n + j]
                        IN  /\ c.fn = d[j].agg.fun
                            /\ c.shape = claimedshape(d[j].agg.src)
                            /\ c.args = claimedargs(table.flds, d[j].agg.src, c.shape, gs[i])
                            /\ rows[i][nk + j] = applyagg(c.fn, c.args)

\* the whole of what a MultiAggregateView yields over a table, and whether
\* its iteration raises
multiaggall(w, t) ==
    IF invalid(w.aggregation) THEN [raised |-> TRUE, out |-> <<>>]
    ELSE LET gs == groupsof(t.flds, w.key, iterrows(w.source, t))
             d == normalised(w.aggregation)
         IN  [raised |-> FALSE,
              out |-> <<multiaggheader(w.key, d)>>
                      \o [i \in 1..Len(gs) |-> multiaggrow(t.flds, w.key, d, gs[i])]]

\* the list entry of a (name, rule) pair, as the docstring writes it: the
\* name followed by the rule, or by the items of a rule that is a tuple
listentry(name, rule) == Tup(<<Str(name)>> \o (IF istuple(rule) THEN rule.items ELSE <<rule>>))

RECURSIVE asdict(_)
asdict(ps) ==
    IF ps = <<>> THEN <<>>
    ELSE odset(asdict(SubSeq(ps, 1, Len(ps) - 1)), ps[Len(ps)].name, ps[Len(ps)].rule)

\* C9: a view made by aggregate(T, K) and extended by assignments before it
\* is iterated ends its iteration with the same header and rows (or the same
\* failure) as aggregate(T, K, spec) given the same names and rules in the
\* same order as a list of tuples or as an ordered mapping; the output
\* fields are in the order of their assignment.
C9_SuffixNotationSameTable ==
    LET v == "t7"
        key == views[v].key
        presorted == views[v].source.op = "table"
        ps == setitems
        aslist == ListAggregation([i \in 1..Len(ps) |-> listentry(ps[i].name, ps[i].rule)])
        bylist == aggregate(TableSrc, key, aslist, NoValue, presorted)
        bydict == aggregate(TableSrc, key, DictAggregation(asdict(ps)), NoValue, presorted)
        got == [raised |-> raised(v), out |-> out[v]]
    IN  (done(v) \/ raised(v)) =>
            /\ multiaggall(bylist, table) = got
            /\ multiaggall(bydict, table) = got
            /\ done(v) => out[v][1] = keynames(key) \o firstnames(ps)

\* a finished iteration of a view given count = len and then bars = ('bar',
\* sum) by assignment, over two rows of one key
C9_Witness ==
    /\ done("t7")
    /\ Len(setitems) = 2
    /\ setitems[1].name = "bars" /\ setitems[1].rule = Str("bar")
    /\ setitems[2].name = "count" /\ setitems[2].rule = Tup(<<Str("bar"), Fn("sum")>>)
    /\ table.rows = <<(<<1, 2>>), (<<1, 1>>)>>
    /\ out["t7"] = <<(<<"foo", "bars", "count">>), (<<1, (<<2, 1>>), 3>>)>>

(***************************************************************************)
(* Claims about mergeduplicates (SpecMerge).                               *)
(***************************************************************************)
\* the distinct values of the field at index i over the rows of key k,
\* leaving out the rows too short to have the field and the missing value
distinctvalues(t, key, k, i, missing) ==
    {x \in UNION {Range(t.rows[n]) : n \in 1..Len(t.rows)} :
        \E n \in 1..Len(t.rows) :
            /\ getkey(t.flds, key, t.rows[n]) = k
            /\ Len(t.rows[n]) >= i
            /\ t.rows[n][i] = x
            /\ x # missing}

\* C4: a finished mergeduplicates (presorted=False) has emitted one row per
\* distinct key, and for every non-key field of that row, with D the
\* distinct values of the field over the rows of the key (short rows and
\* the missing value left out): the missing value when D is empty, the
\* single value of D when it has one, a Conflict of exactly D otherwise.
C4_MergeDuplicatesResolution ==
    LET v == "t2"
        key == views[v].key
        missing == views[v].missing
        nk == Len(key.f)
        rows == datarows(v)
        others == {i \in 1..Len(table.flds) : table.flds[i] \notin Range(key.f)}
        col(i) == nk + Cardinality({j \in others : j <= i})
        keyof(r) == IF key.kind = "field" THEN r[1] ELSE SubSeq(r, 1, nk)
    IN  (done(v) /\ views[v].table.op = "sort") =>
            /\ Len(rows) = Cardinality(keysof(table, key))
            /\ \A k \in keysof(table, key) :
                \E n \in 1..Len(rows) :
                    /\ keyof(rows[n]) = k
                    /\ Len(rows[n]) = Len(table.flds)
                    /\ \A i \in others :
                        LET D == distinctvalues(table, key, k, i, missing)
                            cell == rows[n][col(i)]
                        IN  /\ D = {} => cell = Value(missing)
                            /\ Cardinality(D) = 1 => cell.t = "value" /\ cell.v = D
                            /\ Cardinality(D) >= 2 => cell = Conflict(D)

\* three rows of one key that differ in bar, of which one lacks baz and one
\* has None for baz, merged with missing=None
C4_Witness ==
    /\ done("t2")
    /\ views["t2"].key = FieldKey("foo")
    /\ views["t2"].missing = None
    /\ views["t2"].table.op = "sort"
    /\ table.rows = <<(<<1, 1, 1>>), (<<1, 2>>), (<<1, 1, None>>)>>
    /\ out["t2"] = <<FooBarBaz, (<<1, Conflict({1, 2}), Value(1)>>)>>
(***************************************************************************)
(* Claims about fold (SpecFold).                                           *)
(***************************************************************************)
\* f(...f(f(v1, v2), v3)..., vn): the fold of the first n members
RECURSIVE leftfold(_, _, _)
leftfold(f, vs, n) ==
    IF n = 1 THEN vs[1] ELSE applyf(f, leftfold(f, vs, n - 1), vs[n])

\* C7: a finished fold has emitted the header ('key', 'value') and then one
\* row (k, r) per group, r the left fold of f without a seed over the
\* group's values (whole rows without a value field) in stream order; f
\* was called with the fold so far and the next value, never for a group of
\* one row, whose r is its one value.
C7_FoldIsLeftFold ==
    LET v == "t2"
        key == views[v].key
        f == views[v].f
        gs == groupsof(table.flds, key, iterrows(views[v].table, table))
        vs(i) == groupvalues(table.flds, views[v].value, gs[i])
        rows == datarows(v)
        ncalls(i) == Len(gs[i]) - 1
        before(i) == SumSeq([j \in 1..(i - 1) |-> ncalls(j)])
    IN  done(v) =>
            /\ out[v][1] = <<"key", "value">>
            /\ Len(rows) = Len(gs)
            /\ (views[v].table.op = "sort" => Len(rows) = Cardinality(keysof(table, key)))
            /\ Len(calls) = before(Len(gs) + 1)
            /\ \A i \in 1..Len(rows) :
                /\ Len(rows[i]) = 2
                /\ rows[i][1] = getkey(table.flds, key, gs[i][1])
                /\ rows[i][2] = leftfold(f, vs(i), Len(gs[i]))
                /\ Len(gs[i]) = 1 => rows[i][2] = vs(i)[1]
                /\ \A n \in 1..ncalls(i) :
                    /\ calls[before(i) + n].a = leftfold(f, vs(i), n)
                    /\ calls[before(i) + n].b = vs(i)[n + 1]

\* three rows of one key folded with subtraction: (3 - 1) - 2 = 0, where
\* 3 - (1 - 2) = 4
C7_Witness ==
    /\ done("t2")
    /\ views["t2"].f = "sub"
    /\ views["t2"].key = FieldKey("foo")
    /\ table.rows = <<(<<1, 3>>), (<<1, 1>>), (<<1, 2>>)>>
    /\ out["t2"] = <<(<<"key", "value">>), (<<1, 0>>)>>
(***************************************************************************)
(* Claims about select and its complement (SpecSelect).                    *)
(***************************************************************************)
\* C5: once select(T, p) and select(T, p, complement=True) have both been
\* iterated to the end, every data row of T is in exactly one of the two
\* results: each row is as many times in the two results together as it is
\* in T, whatever p returned for it.
C5_ComplementPartitions ==
    (done("kept") /\ done("dropped")) =>
        \A i \in 1..Len(table.rows) :
            count(datarows("kept"), table.rows[i]) + count(datarows("dropped"), table.rows[i])
                = count(table.rows, table.rows[i])
(***************************************************************************)
(* Claims about selectusingcontext (SpecContext).                          *)
(***************************************************************************)
\* the rows read from the table so far, and those among them not yet
\* passed to the query as the current row
rowsread(v) == IF gens[v].opened THEN Len(table.rows) - Len(gens[v].it) ELSE 0
rowsheld(v) == rowsread(v) - Len(calls)

\* C6: over a table of n >= 1 rows the i-th call of the query, in every
\* state, was given (row i-1, row i, row i+1) with None for a row before
\* the first or after the last, and row i has been emitted exactly when the
\* call returned a true value; a finished iteration has made n calls; the
\* rows read and not yet queried are never more than the pending current
\* row and, between reading a row and the call that follows, the row just
\* read.
C6_ContextCalls ==
    LET v == "t2"
        n == Len(table.rows)
        row(i) == table.rows[i]
    IN  n >= 1 =>
            /\ Len(calls) <= n
            /\ \A i \in 1..Len(calls) :
                /\ calls[i].prv = (IF i = 1 THEN Absent ELSE Some(row(i - 1)))
                /\ calls[i].cur = row(i)
                /\ calls[i].nxt = (IF i = n THEN Absent ELSE Some(row(i + 1)))
            /\ gens[v].pc # "start" =>
                datarows(v) = [i \in 1..Len(SelectSeq(calls, LAMBDA c : truthy(c.ret))) |->
                                SelectSeq(calls, LAMBDA c : truthy(c.ret))[i].cur]
            /\ done(v) => Len(calls) = n
            /\ ~raised(v)
            /\ rowsheld(v) <= (IF gens[v].pc = "query" THEN 2 ELSE 1)

\* the docstring's query over three rows with bar 1, 3 and 3: the second
\* and the third are emitted
C6_Witness ==
    /\ done("t2")
    /\ views["t2"].query = "near"
    /\ table.rows = <<(<<1, 1>>), (<<2, 3>>), (<<1, 3>>)>>
    /\ Len(calls) = 3
    /\ calls[2].prv = Some(<<1, 1>>) /\ calls[2].nxt = Some(<<1, 3>>)
    /\ out["t2"] = <<FooBar, (<<2, 3>>), (<<1, 3>>)>>
(***************************************************************************)
(* Claims about facet (SpecFacet).                                         *)
(***************************************************************************)
\* the rows of a table whose field is v, a row too short for the field
\* taken to have None
rowswith(t, field, v) ==
    SelectSeq(t.rows, LAMBDA r : recget(Record(r, t.flds, None), field) = v)

\* C8: once every table of facet(T, F) has been iterated as far as it
\* goes, the keys are the values of F among the rows of T, the table under
\* key v has given exactly the rows of T whose F is v, and so every row of
\* T has been given by exactly one facet.
C8_FacetPartitions ==
    LET F == views[CHOOSE v \in DOMAIN views : TRUE].field.f[1]
    IN  (DOMAIN views # {} /\ \A v \in DOMAIN views : gens[v].pc \in {"done", "raised"}) =>
            /\ DOMAIN views = Range(values(table, F))
            /\ \A v \in DOMAIN views : done(v) /\ datarows(v) = rowswith(table, F, v)
            /\ \A i \in 1..Len(table.rows) :
                Cardinality({v \in DOMAIN views : table.rows[i] \in Range(datarows(v))}) = 1
(***************************************************************************)
(* Claims about construction and iteration of any view (SpecViews).        *)
(***************************************************************************)
\* no generator of a view has taken a step
notiterated == \A v \in DOMAIN views : gens[v].pc = "start" /\ ~gens[v].opened

\* C11: as long as no view returned by a constructor has been iterated, the
\* source table (here one that has rows) has not been iterated and no
\* caller-supplied function has been called.
C11_ConstructorsAreLazy ==
    (notiterated /\ table.rows # <<>>) => (reads = 0 /\ aggregatorcalls = <<>>)
(***************************************************************************)
(* Claims about iterating a view again (SpecIterate).                      *)
(*                                                                         *)
(* What one whole iteration of a view yields over a table, and whether it  *)
(* ends by raising, written without the generator's steps.                 *)
(***************************************************************************)
rowreduceall(w, t) ==
    LET gs == groupsof(t.flds, w.key, iterrows(w.source, t))
        k(i) == getkey(t.flds, w.key, gs[i][1])
        stop == firstfail(Len(gs), LAMBDA i : reducerraises(w.reducer, k(i), gs[i]))
    IN  [raised |-> stop <= Len(gs),
         out |-> <<IF w.fields = NoFields THEN t.flds ELSE w.fields>>
                 \o [i \in 1..(stop - 1) |-> applyreducer(w.reducer, k(i), gs[i])]]

simpleaggall(w, t) ==
    LET gs == groupsof(t.flds, w.key, iterrows(w.table, t))
        stop == firstfail(Len(gs),
                    LAMBDA i : aggraises(w.aggregation, groupvalues(t.flds, w.value, gs[i])))
    IN  [raised |-> stop <= Len(gs),
         out |-> <<simpleaggheader(w.key)>> \o SubSeq(simpleaggrows(w, t), 1, stop - 1)]

\* a multi-column aggregate goes as far as the first group for which one of
\* its aggregators raises
multiaggupto(w, t) ==
    LET m == multiaggall(w, t)
        d == normalised(w.aggregation)
        gs == groupsof(t.flds, w.key, iterrows(w.source, t))
        fails(i) == \E j \in 1..Len(d) :
                        LET c == aggcall(t.flds, d[j].agg, gs[i])
                        IN  aggraises(c.fn, c.args)
        stop == firstfail(Len(gs), LAMBDA i : fails(i))
    IN  IF m.raised THEN m
        ELSE [raised |-> stop <= Len(gs), out |-> SubSeq(m.out, 1, stop)]

mergeall(w, t) ==
    LET gs == groupsof(t.flds, w.key, iterrows(w.table, t))
    IN  yielded(<<mergeheader(t.flds, w.key)>>
                \o [i \in 1..Len(gs) |-> mergerow(t.flds, w.key, w.missing, gs[i])])

foldall(w, t) ==
    LET gs == groupsof(t.flds, w.key, iterrows(w.table, t))
        vals(i) == groupvalues(t.flds, w.value, gs[i])
        fails(i) == LET cs == reducecalls(w.f, vals(i)[1], Tail(vals(i)))
                    IN  \E j \in 1..Len(cs) : fraises(w.f, cs[j].a, cs[j].b)
        stop == firstfail(Len(gs), LAMBDA i : fails(i))
    IN  [raised |-> stop <= Len(gs),
         out |-> <<(<<"key", "value">>)>>
                 \o [i \in 1..(stop - 1) |->
                        <<getkey(t.flds, w.key, gs[i][1]),
                          leftfold(w.f, vals(i), Len(gs[i]))>>]]

contextall(w, t) ==
    LET rows == iterrows(w.table, t)
        rec(i) == IF i \in 1..Len(rows) THEN Some(Record(rows[i], t.flds, None)) ELSE Absent
        stop == firstfail(Len(rows),
                    LAMBDA i : queryraises(w.query, rec(i - 1), rec(i)[1], rec(i + 1)))
        kept == {i \in 1..(stop - 1) :
                    truthy(applyquery(w.query, rec(i - 1), rec(i)[1], rec(i + 1)))}
        nth(n) == CHOOSE i \in kept : Cardinality({j \in kept : j < i}) = n - 1
    IN  [raised |-> stop <= Len(rows),
         out |-> <<t.flds>> \o [n \in 1..Cardinality(kept) |-> rows[nth(n)]]]

wholeiteration(w, t) ==
    IF w.cls = "RowReduceView" THEN rowreduceall(w, t)
    ELSE IF w.cls = "SimpleAggregateView" THEN simpleaggall(w, t)
    ELSE IF w.cls = "MultiAggregateView" THEN multiaggupto(w, t)
    ELSE IF w.cls = "MergeDuplicatesView" THEN mergeall(w, t)
    ELSE IF w.cls = "FoldView" THEN foldall(w, t)
    ELSE IF w.cls = "RowSelectView" THEN rowselectall(w, t)
    ELSE IF w.cls = "FieldSelectView" THEN fieldselectall(w, t)
    ELSE contextall(w, t)

\* the iteration of v has ended, by exhaustion or by an exception
ended(v) == done(v) \/ raised(v)

C13_SelectIsIdempotent ==
    (ended("once") /\ ended("twice")) =>
        /\ out["twice"] = out["once"]
        /\ raised("twice") <=> raised("once")

\* rows with bar not divisible by 2, complement true: both selections have
\* kept the row whose bar is 2 and dropped the other
C13_Witness ==
    /\ done("once") /\ done("twice")
    /\ views["once"] = select(TableSrc, <<FieldKey("bar"), Where("mod", 2)>>, None, TRUE)
    /\ table.rows = <<(<<1, 1>>), (<<1, 2>>)>>
    /\ out["twice"] = <<FooBar, (<<1, 2>>)>>
(***************************************************************************)
(* Claims about callers' functions that raise (SpecRaise).                 *)
(***************************************************************************)
\* the logged call c, made for the view w, is one for which the function
\* raises
callfailed(w, c) ==
    IF w.cls = "RowReduceView" THEN reducerraises(w.reducer, c.key, c.rows)
    ELSE IF w.cls = "SimpleAggregateView" THEN aggraises(w.aggregation, c.args)
    ELSE IF w.cls = "MultiAggregateView" THEN aggraises(c.fn, c.args)
    ELSE IF w.cls = "FoldView" THEN fraises(w.f, c.a, c.b)
    ELSE IF w.cls = "FieldSelectView"
        THEN whereraises(w.where, itemgetter(asindices(table.flds, w.field.f), c.row))
    ELSE IF w.cls = "RowSelectView"
        THEN rowwhereraises(w.where, Record(c.row, table.flds, w.missing))
    ELSE queryraises(w.query, c.prv, Record(c.cur, table.flds, None), c.nxt)

\* C14: for a view whose reducer, aggregator, fold function, predicate or
\* query raises for some group or row of the source, the iteration yields
\* the header and the rows of the groups or rows before the first such one
\* and nothing more; it ends with the exception of that call, as raised;
\* the failing call is the last call made, and the only call made with an
\* input for which the function raises.
C14_CallableErrorsPropagate ==
    LET v == "t2"
        w == views[v]
        whole == wholeiteration(w, table)
        n == Len(calls)
    IN  (w \in Raising /\ whole.raised) =>
            /\ Len(out[v]) <= Len(whole.out)
            /\ out[v] = SubSeq(whole.out, 1, Len(out[v]))
            /\ ~done(v)
            /\ raised(v) =>
                    /\ out[v] = whole.out
                    /\ n > 0
                    /\ callfailed(w, calls[n])
                    /\ gens[v].exc.call = calls[n]
            /\ \A i \in 1..n : callfailed(w, calls[i]) => (raised(v) /\ i = n)

\* the summing reducer raises for the second of two groups: the row of the
\* first group has been yielded, the reducer was called twice
C14_Witness ==
    /\ raised("t2")
    /\ views["t2"] = rowreduce(TableSrc, FieldKey("foo"), "sumfail", NoFields, FALSE)
    /\ table.rows = <<(<<2, 2>>), (<<1, 1>>)>>
    /\ out["t2"] = <<FooBar, (<<1, 1>>)>>
    /\ Len(calls) = 2
(***************************************************************************)
(* Claims about rules the multi-column aggregate cannot normalise          *)
(* (SpecOtherRules).                                                       *)
(***************************************************************************)
\* a malformed rule, as the claim has it: not a function, not a field name,
\* not a 1-tuple of a field name or a function, not a 2-tuple
malformed(r) ==
    /\ ~callable(r)
    /\ ~isstring(r)
    /\ ~(istuple(r) /\ Len(r.items) = 1 /\ (isstring(r.items[1]) \/ callable(r.items[1])))
    /\ ~(istuple(r) /\ Len(r.items) = 2)

malformedin(d) == {i \in 1..Len(d) : malformed(d[i].rule)}

\* C15: a multi-column aggregate whose mapping holds a malformed rule, given
\* to the constructor or assigned afterwards, stays constructed without
\* error until it is iterated; the iteration then raises the 'invalid
\* aggregation' error, which names an output field of the mapping and its
\* malformed rule, and yields no data row.
C15_MalformedRuleRaisesAtIteration ==
    LET v == "t7"
        d == views[v].aggregation
    IN  malformedin(d) # {} =>
            /\ gens[v].pc \in {"start", "raised"}
            /\ raised(v) =>
                    /\ Len(out[v]) <= 1
                    /\ gens[v].exc.type = "invalid aggregation"
                    /\ \E i \in malformedin(d) :
                            /\ gens[v].exc.outfld = d[i].name
                            /\ gens[v].exc.agg = d[i].rule
(***************************************************************************)
(* Claims about presorted=True (SpecPresorted).                            *)
(***************************************************************************)
\* the rows of t at which a run of equal keys begins, and the n-th run
runstarts(t, key) ==
    {i \in 1..Len(t.rows) :
        i = 1 \/ getkey(t.flds, key, t.rows[i]) # getkey(t.flds, key, t.rows[i - 1])}

nthrun(t, key, n) ==
    LET starts == runstarts(t, key)
        first == CHOOSE i \in starts : Cardinality({j \in starts : j < i}) = n - 1
        later == {j \in starts : j > first}
        last == IF later = {} THEN Len(t.rows) ELSE minof(later) - 1
    IN  SubSeq(t.rows, first, last)

\* the output row of a view for one group of rows
grouprow(w, flds, grp) ==
    LET k == getkey(flds, w.key, grp[1])
    IN  IF w.cls = "RowReduceView" THEN applyreducer(w.reducer, k, grp)
        ELSE IF w.cls = "SimpleAggregateView"
            THEN simpleaggrow(flds, w.key, w.aggregation, w.value, grp)
        ELSE IF w.cls = "MultiAggregateView"
            THEN multiaggrow(flds, w.key, normalised(w.aggregation), grp)
        ELSE IF w.cls = "FoldView"
            THEN <<k, leftfold(w.f, groupvalues(flds, w.value, grp), Len(grp))>>
        ELSE mergerow(flds, w.key, w.missing, grp)

\* C16: a view made with presorted=True by rowreduce, aggregate, fold or
\* mergeduplicates yields its rows in the order of the source, one at a
\* time for each maximal run of consecutive rows with equal key: the n-th
\* data row is the row of the n-th run; its finished iteration has yielded
\* as many data rows as there are runs, and it does not raise.
C16_PresortedGroupsRuns ==
    LET v == "t2"
        w == views[v]
    IN  /\ ~raised(v)
        /\ Len(out[v]) <= 1 + Cardinality(runstarts(table, w.key))
        /\ \A n \in 1..(Len(out[v]) - 1) :
                out[v][n + 1] = grouprow(w, table.flds, nthrun(table, w.key, n))
        /\ done(v) => Len(datarows(v)) = Cardinality(runstarts(table, w.key))

\* mergeduplicates over rows whose keys are 1, 2, 1: three rows, two of
\* them for the key 1
C16_Witness ==
    /\ done("t2")
    /\ views["t2"] = mergeduplicates(TableSrc, FieldKey("foo"), None, TRUE)
    /\ table.rows = <<(<<1, 1>>), (<<2, 1>>), (<<1, 2>>)>>
    /\ datarows("t2") = <<(<<1, Value(1)>>), (<<2, Value(1)>>), (<<1, Value(2)>>)>>
(***************************************************************************)
(* Claims about the range selections (SpecRange).                          *)
(***************************************************************************)
\* the comparison documented for a variant
documented(variant, minv, v, maxv) ==
    IF variant = "rangeopenleft" THEN minv <= v /\ v < maxv
    ELSE IF variant = "rangeopenright" THEN minv < v /\ v <= maxv
    ELSE IF variant = "rangeopen" THEN minv <= v /\ v <= maxv
    ELSE minv < v /\ v < maxv

\* the row has a value of bar, and it satisfies the comparison
inrange(w, row) ==
    /\ Len(row) >= 2
    /\ documented(w.where.fn, w.where.value[1], row[2], w.where.value[2])

\* C17: for bounds minv <= maxv, when the iteration of a range selection
\* over bar has ended, it has yielded the header and, in their order, the
\* rows whose bar satisfies the comparison documented for the variant
\* (minv <= v < maxv, minv < v <= maxv, minv <= v <= maxv, minv < v < maxv);
\* with complement=True, the other rows.
C17_RangeSelections ==
    LET v == "t2"
        w == views[v]
    IN  ended(v) =>
            out[v] = <<table.flds>>
                     \o SelectSeq(table.rows, LAMBDA r : inrange(w, r) # w.complement)
(***************************************************************************)
(* Claims about the Conflict values of mergeduplicates (SpecMerge).        *)
(***************************************************************************)
\* C18: in every row mergeduplicates has yielded, the cells of the key
\* columns are the key of a group of the table, and every cell of another
\* column that is a Conflict holds at least two values, does not hold the
\* missing value, and holds only values that the field has in some row of
\* the table with the key of that output row.
C18_ConflictInvariants ==
    LET v == "t2"
        key == views[v].key
        missing == views[v].missing
        nk == Len(key.f)
        rows == datarows(v)
        others == {i \in 1..Len(table.flds) : table.flds[i] \notin Range(key.f)}
        field(j) == CHOOSE i \in others : nk + Cardinality({m \in others : m <= i}) = j
        keyof(r) == IF key.kind = "field" THEN r[1] ELSE SubSeq(r, 1, nk)
    IN  \A n \in 1..(Len(out[v]) - 1) :
            /\ keyof(rows[n]) \in keysof(table, key)
            /\ \A j \in (nk + 1)..Len(rows[n]) :
                    rows[n][j].t = "conflict" =>
                        /\ Cardinality(rows[n][j].v) >= 2
                        /\ missing \notin rows[n][j].v
                        /\ \A x \in rows[n][j].v :
                                \E m \in 1..Len(table.rows) :
                                    /\ getkey(table.flds, key, table.rows[m]) = keyof(rows[n])
                                    /\ Len(table.rows[m]) >= field(j)
                                    /\ table.rows[m][field(j)] = x

\* three rows of one key whose bar is 1, missing (None) and 2: bar comes
\* out as the Conflict of 1 and 2
C18_Witness ==
    /\ done("t2")
    /\ views["t2"] = mergeduplicates(TableSrc, FieldKey("foo"), None, TRUE)
    /\ table.rows = <<(<<1, 1>>), (<<1, None>>), (<<1, 2>>)>>
    /\ datarows("t2") = <<(<<1, Conflict({1, 2}), Value(None)>>)>>
(***************************************************************************)
(* Claims about selectusingcontext over a table without rows               *)
(* (SpecContext).                                                          *)
(***************************************************************************)
\* C19: over a table that has a header and no data row, the iteration of
\* selectusingcontext never calls the query, and when it has ended it has
\* ended normally, without an error, having yielded just the header.
C19_ContextOverNoRows ==
    LET v == "t2"
    IN  table.rows = <<>> =>
            /\ calls = <<>>
            /\ ~raised(v)
            /\ done(v) => out[v] = <<table.flds>>
(***************************************************************************)
(* Claims about the mapping a multi-column aggregate holds (SpecAssign).   *)
(***************************************************************************)
names(d) == [i \in 1..Len(d) |-> d[i].name]

\* C20: no step of an iteration of a multi-column aggregate, nor the start
\* of a new iteration, changes the mapping the view holds (which is the
\* caller's dict when a dict was given): every rule stays as it was given.
\* The iteration that starts yields a header with the columns the mapping
\* has then, those assigned since the last iteration included; a column
\* assigned while an iteration is under way leaves what that iteration has
\* yielded and its frame as they are, and every row it yields afterwards
\* has the columns of its header.
C20_IterationKeepsStoredMapping ==
    [][LET v == "t7"
           iterates == gens'[v] # gens[v]
       IN  /\ iterates => views' = views
           /\ (gens[v].pc = "start" /\ gens'[v].pc = "groups") =>
                    out'[v] = <<keynames(views[v].key) \o names(views[v].aggregation)>>
           /\ (views' # views) => (gens' = gens /\ out' = out)
           /\ (gens[v].pc = "groups" /\ gens'[v].pc = "groups" /\ out'[v] # out[v]) =>
                    /\ out'[v][1] = out[v][1]
                    /\ Len(out'[v]) = Len(out[v]) + 1
                    /\ Len(out'[v][Len(out'[v])]) = Len(out[v][1])
      ]_vars

\* a second iteration, begun after bars was assigned during the first one:
\* the mapping still holds the rules as given, the header has bars, and so
\* has the row
C20_Witness ==
    /\ done("t7")
    /\ reads = 2
    /\ table.rows = <<(<<1, 2>>)>>
    /\ views["t7"].aggregation = <<[name |-> "n", rule |-> Tup(<<Fn("len")>>)],
                                    [name |-> "bars", rule |-> Str("bar")]>>
    /\ out["t7"] = <<(<<"foo", "n", "bars">>), (<<1, 1, (<<2>>)>>)>>

(***************************************************************************)
(* Claims about selections as subsequences of their source.                *)
(***************************************************************************)
\* s is t with some of its elements left out: every element of s is an
\* element of t at a position of its own, in the order of t
RECURSIVE subsequence(_, _)
subsequence(s, t) ==
    IF s = <<>> THEN TRUE
    ELSE IF t = <<>> THEN FALSE
    ELSE IF Head(s) = Head(t) THEN subsequence(Tail(s), Tail(t))
    ELSE subsequence(s, Tail(t))

\* the positions of the source's data rows a selection has decided on
decided(v) ==
    IF views[v].cls = "SelectUsingContextView"
    THEN Cardinality({i \in 1..Len(calls) : calls[i].fn = "query"})
    ELSE Cardinality({i \in 1..Len(calls) : calls[i].fn = "where"})

\* C21: for every selection view (row predicate, field predicate, context
\* predicate, either complement flag), at every point of an iteration the
\* first row yielded is the source's header, and the data rows yielded so
\* far are a subsequence of the source's data rows read so far: each is a
\* source row with its values unchanged, they keep the source's order, and
\* no source row is yielded more than once
C21_SelectionIsSubsequence ==
    \A v \in DOMAIN views :
        /\ out[v] # <<>> => out[v][1] = table.flds
        /\ out[v] # <<>> =>
              /\ decided(v) <= Len(table.rows)
              /\ subsequence(datarows(v), SubSeq(table.rows, 1, decided(v)))
        /\ out[v] # <<>> => Len(datarows(v)) <= Len(table.rows)

\* a selection has ended having left out the first row of its source and
\* yielded the last one, which the source holds once
C21_Witness ==
    /\ done("t2")
    /\ Len(table.rows) >= 2
    /\ datarows("t2") # <<>>
    /\ datarows("t2")[Len(datarows("t2"))] = table.rows[Len(table.rows)]
    /\ count(datarows("t2"), table.rows[1]) = 0
    /\ count(table.rows, table.rows[Len(table.rows)]) = 1

====
